---- MODULE Spec2Model ----
(***************************************************************************)
(* A model of Wisteria, a Java project/build manager:                      *)
(*   - dependency.rs     Dependency::load / Dependency::resolve and the    *)
(*                       UpdatePolicy x UpdateContext decision table       *)
(*   - util/files.rs     ensure_parents / download                         *)
(*   - source.rs         generate_source (incremental source selection)    *)
(*   - builder.rs        build_task (compile step and its stderr oracle)   *)
(*   - configuration.rs  Configuration::from / apply_implicit /            *)
(*                       inherit_from / inherit_vec                        *)
(*   - project.rs        Project::from (the inheritance pass)              *)
(*                                                                         *)
(* Strings whose characters the code inspects (paths, stderr, coordinates) *)
(* are sequences of one-character strings; enum-like tokens (dependency    *)
(* type, policy name, configuration name) are atomic strings.              *)
(***************************************************************************)
EXTENDS Integers, Sequences, FiniteSets, TLC

VARIABLES
    (* ---- dependency resolution (dependency.rs, util/files.rs) ---- *)
    deps,        \* Project.dependencies: name -> Dependency
    cache,       \* the cache files that exist on disk (set of paths)
    dirs,        \* the cache directories that exist on disk (set of paths)
    resolves,    \* name -> number of resolve calls made for it
    fetches,     \* name -> number of files::download calls made for it
    returned,    \* name -> set of paths resolve has returned for it
    last,        \* what the last resolve call saw and did
    (* ---- incremental build (source.rs, builder.rs, metadata.rs) ---- *)
    metadata,    \* Metadata loaded from .wisteria
    flags,       \* Flags (recompile_all)
    task,        \* the Task being built (name, sources, output)
    tree,        \* source root -> the files below it, in read_dir order
    mtimes,      \* canonical source file -> modification time, or NoMtime
    bin,         \* class files present in ./bin/
    info,        \* BuildInformation (source_files), or None
    build,       \* what build_task did
    pc,          \* position of the build invocation
    (* ---- configurations (configuration.rs, project.rs) ---- *)
    child,       \* the configuration that inherits
    parent,      \* the configuration inherited from
    applied,     \* number of inherit_from applications so far
    firstResult, \* the child after the first application
    original,    \* the child before any application
    ptoml,       \* the parsed project document handed to Project::from
    presult,     \* what Project::from returned
    cpnames,     \* generate_classpath: the configuration's dependency names
    cpresult,    \* generate_classpath: what the call did and returned
    mpath,       \* ManifestEntry::ClassPath: its path entries
    mheader,     \* what to_header made of them
    pktask,      \* package: the Task (entry, includes, shaded)
    pktargets,   \* package: the targets to write
    pkenv,       \* package: the disk and the external programs it meets
    pkout,       \* package: what the call did and returned
    mdfile,      \* the persisted .wisteria file
    mdstore,     \* the Metadata the process holds
    mdbuilds,    \* builds recorded since the load
    sbin,        \* bin/ across invocations (the class output present)
    smeta,       \* the Metadata persisted in .wisteria
    smtimes,     \* source file -> modification time
    sclock,      \* the time of the next invocation
    slog,        \* what the last invocation collected and did
    cpair,       \* two declared dependencies of one project
    cres,        \* what resolving the one and then the other returned
    renv,        \* resolve_filepath: the environment mapping
    rpath,       \* resolve_filepath: interim_path
    rpc,         \* resolve_filepath: where the call stands
    rturn,       \* resolve_filepath: whether the loop has made an odd number of turns
    vkind,       \* what the table holds under the key: nothing, an integer or a string
    vn,          \* the integer it holds
    vconfig,     \* the result of Configuration::from
    vflag        \* the result of CompilerFlags::from

depVars == <<deps, cache, dirs, resolves, fetches, returned, last>>
buildVars == <<metadata, flags, task, tree, mtimes, bin, info, build, pc>>
inheritVars == <<child, parent, applied, firstResult, original>>
projectVars == <<ptoml, presult>>
classpathVars == <<cpnames, cpresult>>
manifestVars == <<mpath, mheader>>
packageVars == <<pktask, pktargets, pkenv, pkout>>
metadataVars == <<mdfile, mdstore, mdbuilds>>
sessionVars == <<sbin, smeta, smtimes, sclock, slog>>
pathsVars == <<cpair, cres>>
variablesVars == <<renv, rpath, rpc, rturn>>
versionsVars == <<vkind, vn, vconfig, vflag>>
vars == <<depVars, buildVars, inheritVars, projectVars, classpathVars, manifestVars,
          packageVars, metadataVars, sessionVars, pathsVars, variablesVars, versionsVars>>

None == "None"

(***************************************************************************)
(* String helpers (std::string::String as a sequence of characters).       *)
(***************************************************************************)

\* str::starts_with
StartsWith(s, p) ==
    /\ Len(p) <= Len(s)
    /\ SubSeq(s, 1, Len(p)) = p

RECURSIVE Replace(_, _, _)
\* str::replace(c, r): every occurrence of the character c becomes r
Replace(s, c, r) ==
    IF s = <<>> THEN <<>>
    ELSE (IF Head(s) = c THEN r ELSE <<Head(s)>>) \o Replace(Tail(s), c, r)

RECURSIVE Concat(_)
\* format!: the pieces in order
Concat(pieces) ==
    IF pieces = <<>> THEN <<>> ELSE Head(pieces) \o Concat(Tail(pieces))

RECURSIVE Split(_, _)
\* str::split(c): the pieces of s between occurrences of the character c
Split(s, c) ==
    IF \A i \in 1..Len(s) : s[i] # c THEN <<s>>
    ELSE LET k == CHOOSE i \in 1..Len(s) : s[i] = c /\ \A j \in 1..(i-1) : s[j] # c
         IN  <<SubSeq(s, 1, k - 1)>> \o Split(SubSeq(s, k + 1, Len(s)), c)

\* PathBuf::pop on a file path: the path without its last component
PathPop(p) ==
    LET slashes == {i \in 1..Len(p) : p[i] = "/"}
    IN  IF slashes = {} THEN <<>>
        ELSE SubSeq(p, 1, (CHOOSE i \in slashes : \A j \in slashes : j <= i) - 1)

(***************************************************************************)
(* Result<T, (String, u8)> and the TOML values the loaders read.           *)
(***************************************************************************)

Ok(v) == [ok |-> TRUE, val |-> v, code |-> 0]
Err(c) == [ok |-> FALSE, val |-> <<>>, code |-> c]
\* Result::unwrap_or
UnwrapOr(r, d) == IF r.ok THEN r.val ELSE d
\* Option<T>: a sequence holding the value, or nothing
NoneOpt == <<>>
Some(v) == <<v>>
IsSome(o) == o # <<>>
\* Result::ok
OkOpt(r) == IF r.ok THEN Some(r.val) ELSE NoneOpt

TStr(v) == [ty |-> "string", v |-> v]
TInt(n) == [ty |-> "integer", v |-> n]
TBool(b) == [ty |-> "boolean", v |-> b]
\* an array: the sequence of its values
TArr(a) == [ty |-> "array", v |-> a]
\* a table: the sequence of its <<key, value>> pairs, in iteration order
TTable(t) == [ty |-> "table", v |-> t]

\* toml_utils::read_string
read_string(key, toml) ==
    IF key \in DOMAIN toml
    THEN IF toml[key].ty = "string" THEN Ok(toml[key].v) ELSE Err(11)
    ELSE Err(10)

\* toml_utils::read_boolean
read_boolean(key, toml) ==
    IF key \in DOMAIN toml
    THEN IF toml[key].ty = "boolean" THEN Ok(toml[key].v) ELSE Err(12)
    ELSE Err(10)

\* a slip: a saturating conversion instead of the cast
read_integer_saturating(key, toml) ==
    IF key \in DOMAIN toml
    THEN IF toml[key].ty = "integer"
         THEN Ok(IF toml[key].v < 0 THEN 0 ELSE IF toml[key].v > 255 THEN 255 ELSE toml[key].v)
         ELSE Err(14)
    ELSE Err(10)

\* toml_utils::read_integer: the integer cast to u8
read_integer(key, toml) ==
    IF key \in DOMAIN toml
    THEN IF toml[key].ty = "integer" THEN Ok(toml[key].v % 256) ELSE Err(14)
    ELSE Err(10)

\* toml_utils::read_string_array
read_string_array(key, toml) ==
    IF key \in DOMAIN toml
    THEN LET v == toml[key]
         IN  IF v.ty = "array"
             THEN IF \A i \in 1..Len(v.v) : v.v[i].ty = "string"
                  THEN Ok([i \in 1..Len(v.v) |-> v.v[i].v])
                  ELSE Err(15)
             ELSE IF v.ty = "string" THEN Ok(<<v.v>>)
             ELSE Err(13)
    ELSE Err(10)

(***************************************************************************)
(* dependency.rs: UpdatePolicy and UpdateContext.                          *)
(***************************************************************************)

UpdatePolicies ==
    {"Always", "SwitchOrUpdate", "UpdateOnly", "SwitchOrTask",
     "SwitchConfigurationOnly", "TaskOrUpdate", "TaskInvokedOnly", "Never"}

UpdateContexts == {"Update", "SwitchConfiguration", "TaskInvoked", "ResolveOnly"}

\* a slip in one arm of the match: TaskOrUpdate answers like SwitchOrTask
should_update_swapped(policy, context) ==
    CASE policy = "Always" -> TRUE
      [] policy = "Never" -> FALSE
      [] policy = "SwitchOrUpdate" -> context \in {"Update", "SwitchConfiguration"}
      [] policy = "UpdateOnly" -> context = "Update"
      [] policy = "SwitchOrTask" -> context \in {"SwitchConfiguration", "TaskInvoked"}
      [] policy = "SwitchConfigurationOnly" -> context = "SwitchConfiguration"
      [] policy = "TaskOrUpdate" -> context \in {"SwitchConfiguration", "TaskInvoked"}
      [] policy = "TaskInvokedOnly" -> context = "TaskInvoked"

\* a slip in the Never arm: it answers like Always
should_update_never_true(policy, context) ==
    CASE policy \in {"Always", "Never"} -> TRUE
      [] policy = "SwitchOrUpdate" -> context \in {"Update", "SwitchConfiguration"}
      [] policy = "UpdateOnly" -> context = "Update"
      [] policy = "SwitchOrTask" -> context \in {"SwitchConfiguration", "TaskInvoked"}
      [] policy = "SwitchConfigurationOnly" -> context = "SwitchConfiguration"
      [] policy = "TaskOrUpdate" -> context \in {"Update", "TaskInvoked"}
      [] policy = "TaskInvokedOnly" -> context = "TaskInvoked"

\* UpdatePolicy::should_update
should_update(policy, context) ==
    CASE policy = "Always" -> TRUE
      [] policy = "Never" -> FALSE
      [] policy = "SwitchOrUpdate" ->
            (CASE context = "Update" -> TRUE
               [] context = "SwitchConfiguration" -> TRUE
               [] context = "TaskInvoked" -> FALSE
               [] context = "ResolveOnly" -> FALSE)
      [] policy = "UpdateOnly" ->
            (CASE context = "Update" -> TRUE
               [] context = "SwitchConfiguration" -> FALSE
               [] context = "TaskInvoked" -> FALSE
               [] context = "ResolveOnly" -> FALSE)
      [] policy = "SwitchOrTask" ->
            (CASE context = "Update" -> FALSE
               [] context = "SwitchConfiguration" -> TRUE
               [] context = "TaskInvoked" -> TRUE
               [] context = "ResolveOnly" -> FALSE)
      [] policy = "SwitchConfigurationOnly" ->
            (CASE context = "Update" -> FALSE
               [] context = "SwitchConfiguration" -> TRUE
               [] context = "TaskInvoked" -> FALSE
               [] context = "ResolveOnly" -> FALSE)
      [] policy = "TaskOrUpdate" ->
            (CASE context = "Update" -> TRUE
               [] context = "SwitchConfiguration" -> FALSE
               [] context = "TaskInvoked" -> TRUE
               [] context = "ResolveOnly" -> FALSE)
      [] policy = "TaskInvokedOnly" ->
            (CASE context = "Update" -> FALSE
               [] context = "SwitchConfiguration" -> FALSE
               [] context = "TaskInvoked" -> TRUE
               [] context = "ResolveOnly" -> FALSE)

(***************************************************************************)
(* dependency.rs: Dependency::load.                                        *)
(***************************************************************************)

CacheRoot == <<".","w","i","s","t","e","r","i","a","/","c","a","c","h","e","/">>
JarExt == <<".","j","a","r">>
MavenCentral ==
    <<"h","t","t","p","s",":","/","/","r","e","p","o","1",".","m","a","v","e","n",
      ".","o","r","g","/","m","a","v","e","n","2","/">>
NexusLatest == <<"N","E","X","U","S","_","L","A","T","E","S","T">>
GithubHost == <<"h","t","t","p","s",":","/","/","g","i","t","h","u","b",".","c","o","m","/">>
ReleasesDownload ==
    <<"/","r","e","l","e","a","s","e","s","/","d","o","w","n","l","o","a","d","/">>

\* the common field update_policy of Dependency::load
load_policy(toml) ==
    LET s == UnwrapOr(read_string("update_policy", toml), "SwitchOrUpdate")
    IN  IF s \in UpdatePolicies THEN Ok(s) ELSE Err(30)

\* the "fetchFromMaven" arm of Dependency::load
load_maven(toml, policy) ==
    LET url == UnwrapOr(read_string("url", toml), MavenCentral)
        group_id == read_string("group_id", toml)
        artifact_id == read_string("artifact_id", toml)
        version == UnwrapOr(read_string("version", toml), NexusLatest)
    IN  IF ~group_id.ok THEN Err(group_id.code)
        ELSE IF ~artifact_id.ok THEN Err(artifact_id.code)
        ELSE Ok([kind |-> "FetchFromMaven",
                 url |-> url,
                 group_id |-> group_id.val,
                 artifact_id |-> artifact_id.val,
                 version |-> version,
                 artifact_name |->
                     UnwrapOr(read_string("artifact_name", toml),
                              Concat(<<artifact_id.val, <<"-">>, version>>)),
                 classifier |-> OkOpt(read_string("classifier", toml)),
                 update_policy |-> policy])

\* the "fetchFromUrl" arm of Dependency::load
load_url(toml, policy) ==
    LET url == read_string("url", toml)
    IN  IF ~url.ok THEN Err(url.code)
        ELSE Ok([kind |-> "FetchFromUrl", url |-> url.val, update_policy |-> policy])

\* the "fetchFromGithub" arm of Dependency::load
load_github(toml, policy) ==
    LET username == read_string("username", toml)
        repository == read_string("repository", toml)
        tag == read_string("tag", toml)
    IN  IF ~username.ok THEN Err(username.code)
        ELSE IF ~repository.ok THEN Err(repository.code)
        ELSE IF ~tag.ok THEN Err(tag.code)
        ELSE Ok([kind |-> "FetchFromGithub",
                 username |-> username.val,
                 repository |-> repository.val,
                 asset |-> UnwrapOr(read_string("asset", toml), repository.val),
                 tag |-> tag.val,
                 update_policy |-> policy])

\* Dependency::load
load(toml) ==
    IF "type" \notin DOMAIN toml THEN Err(32)
    ELSE IF toml["type"].ty # "string" THEN Err(32)
    ELSE LET ty == toml["type"].v
             policy == load_policy(toml)
         IN  IF ty = "loadFolder"
             THEN LET path == read_string("path", toml)
                  IN  IF ~path.ok THEN Err(path.code)
                      ELSE Ok([kind |-> "LocalFolder", path |-> path.val,
                               recursive |-> UnwrapOr(read_boolean("recursive", toml), TRUE)])
             ELSE IF ~policy.ok THEN Err(policy.code)
             ELSE CASE ty = "loadArchive" ->
                         (LET path == read_string("path", toml)
                          IN  IF ~path.ok THEN Err(path.code)
                              ELSE Ok([kind |-> "LocalFile", path |-> path.val]))
                    [] ty = "localRepository" ->
                         (LET repository == read_string("repository", toml)
                              name == read_string("name", toml)
                              version == read_string("version", toml)
                          IN  IF ~repository.ok THEN Err(repository.code)
                              ELSE IF ~name.ok THEN Err(name.code)
                              ELSE IF ~version.ok THEN Err(version.code)
                              ELSE Ok([kind |-> "LocalRepository",
                                       repository |-> repository.val,
                                       name |-> name.val, version |-> version.val,
                                       update_policy |-> policy.val]))
                    [] ty = "fetchFromUrl" -> load_url(toml, policy.val)
                    [] ty = "fetchFromMaven" -> load_maven(toml, policy.val)
                    [] ty = "fetchFromGithub" -> load_github(toml, policy.val)
                    [] ty = "buildFromScript" ->
                         (LET run == read_string_array("run", toml)
                              target == read_string("target", toml)
                          IN  IF ~run.ok THEN Err(run.code)
                              ELSE IF ~target.ok THEN Err(target.code)
                              ELSE Ok([kind |-> "BuildFromScript", run |-> run.val,
                                       target |-> target.val,
                                       update_policy |-> policy.val]))
                    [] OTHER -> Err(31)

(***************************************************************************)
(* util/files.rs: ensure_parents and download, against the disk and the    *)
(* network.  ext is what the outside world answers during one call:        *)
(*   ext.mkdir  "ok" | "err"      fs::create_dir_all                       *)
(*   ext.dl     "ok" | "send_err" | "status_err" | "create_err" | "copy_err"*)
(***************************************************************************)

Exts == [mkdir : {"ok", "err"},
         dl : {"ok", "send_err", "status_err", "create_err", "copy_err"}]

\* Path::exists for a directory: it, or something below it, was created
DirExists(d, ds) ==
    \E e \in ds : e = d \/ StartsWith(e, d \o <<"/">>)

\* files::ensure_parents: [ok, dirs]
ensure_parents(filepath, ds, ext) ==
    LET path == PathPop(filepath)
    IN  IF DirExists(path, ds) THEN [ok |-> TRUE, dirs |-> ds]
        ELSE IF ext.mkdir = "ok" THEN [ok |-> TRUE, dirs |-> ds \cup {path}]
        ELSE [ok |-> FALSE, dirs |-> ds]

\* files::download: [res, cache, wrote]; File::create leaves a (truncated)
\* file behind even when the copy that follows fails
download(filepath, files, ext) ==
    CASE ext.dl \in {"send_err", "status_err", "create_err"} ->
            [res |-> Err(1), cache |-> files, wrote |-> FALSE]
      [] ext.dl = "copy_err" ->
            [res |-> Err(1), cache |-> files \cup {filepath}, wrote |-> FALSE]
      [] ext.dl = "ok" ->
            [res |-> Ok(<<>>), cache |-> files \cup {filepath}, wrote |-> TRUE]

(***************************************************************************)
(* util/files.rs: resolve_filepath.  A String is its sequence of pieces: a *)
(* piece is one character, or one whole variable reference (the text the   *)
(* "envvars" pattern matches), written "$" and the key.                    *)
(***************************************************************************)

MaxPieces == 3

\* resolve_os_var("HOME", "HOMEPATH")
HomeDirectory == <<"/", "h">>
\* env::current_dir
WorkingDirectory == <<"/","w">>

\* the pieces the "envvars" pattern matches
IsReference(piece) == piece \in {"$A", "$B"}
\* the key the pattern captures in a reference
KeyOf(piece) == IF piece = "$A" THEN "A" ELSE "B"

\* Regex::captures: the position of the leftmost reference, or 0
captures(s) ==
    IF \E i \in 1..Len(s) : IsReference(s[i])
    THEN CHOOSE i \in 1..Len(s) :
            IsReference(s[i]) /\ \A j \in 1..(i - 1) : ~IsReference(s[j])
    ELSE 0

RECURSIVE replace_piece(_, _, _)
\* str::replace(full, value): every occurrence of the reference is replaced
replace_piece(s, full, value) ==
    IF s = <<>> THEN <<>>
    ELSE (IF Head(s) = full THEN value ELSE <<Head(s)>>)
             \o replace_piece(Tail(s), full, value)

\* one turn of the while loop of resolve_filepath: [pc, path]
substitute(interim_path, environment) ==
    LET full == interim_path[captures(interim_path)]
        key == KeyOf(full)
    IN  IF key \in DOMAIN environment
        THEN [pc |-> "loop", path |-> replace_piece(interim_path, full, environment[key])]
        ELSE [pc |-> "err61", path |-> interim_path]

\* resolve_filepath after the loop: the home path, then the working directory
resolve_prefixes(interim_path) ==
    LET home == IF interim_path # <<>> /\ Head(interim_path) = "~"
                THEN HomeDirectory \o Tail(interim_path) ELSE interim_path
    IN  IF Len(home) >= 2 /\ home[1] = "." /\ home[2] = "/"
        THEN WorkingDirectory \o Tail(home) ELSE home

Pieces == {"a", "/", "$A", "$B"}

\* the environments of a configuration the paths are resolved in
Environments ==
    {<<>>,
     [A |-> <<"v">>],
     [A |-> <<>>, B |-> <<"v", "/">>],
     [A |-> <<"$B">>, B |-> <<"v">>],
     [A |-> <<"$A">>],
     [A |-> <<"$B">>, B |-> <<"$A">>]}

VariablesIdle == renv = <<>> /\ rpath = <<>> /\ rpc = "idle" /\ rturn = FALSE

VariablesInit ==
    /\ renv \in Environments
    /\ \/ \E n \in 0..MaxPieces : rpath \in [1..n -> Pieces]
       \/ rpath \in {<<"~", "/", "$A">>, <<".", "/", "$A">>}
    /\ rpc = "loop"
    /\ rturn = FALSE

\* one turn of `while let Some(capture) = … captures(&interim_path)`
Substitute ==
    /\ rpc = "loop"
    /\ captures(rpath) # 0
    /\ rpath' = substitute(rpath, renv).path
    /\ rpc' = substitute(rpath, renv).pc
    /\ rturn' = ~rturn
    /\ UNCHANGED renv

\* the loop ends: no reference is left, the prefixes are resolved, Ok is returned
ReturnPath ==
    /\ rpc = "loop"
    /\ captures(rpath) = 0
    /\ rpath' = resolve_prefixes(rpath)
    /\ rpc' = "done"
    /\ UNCHANGED <<renv, rturn>>

(***************************************************************************)
(* dependency.rs: Dependency::resolve, the fetch variants.                 *)
(***************************************************************************)

\* the "-classifier" part of a Maven file name
classifier_string(dep) ==
    IF IsSome(dep.classifier) THEN <<"-">> \o dep.classifier[1] ELSE <<>>

\* a slip in the Maven arm: the file is named after artifact_name (artifact-version)
filepath_of_artifact_name(dep, name) ==
    CASE dep.kind = "FetchFromUrl" ->
            Concat(<<CacheRoot, name, <<"/">>, name, JarExt>>)
      [] dep.kind = "FetchFromMaven" ->
            Concat(<<CacheRoot, dep.group_id, <<"/">>, dep.artifact_id, <<"/">>,
                     dep.version, <<"/">>, dep.artifact_name, classifier_string(dep), JarExt>>)
      [] dep.kind = "FetchFromGithub" ->
            Concat(<<CacheRoot, dep.username, <<"/">>, dep.repository, <<"/">>,
                     dep.tag, <<"/">>, dep.repository, JarExt>>)

\* a slip: the version is left out of the folders
filepath_of_unversioned(dep, name) ==
    CASE dep.kind = "FetchFromUrl" ->
            Concat(<<CacheRoot, name, <<"/">>, name, JarExt>>)
      [] dep.kind = "FetchFromMaven" ->
            Concat(<<CacheRoot, dep.group_id, <<"/">>, dep.artifact_id, <<"/">>,
                     dep.artifact_id, classifier_string(dep), JarExt>>)
      [] dep.kind = "FetchFromGithub" ->
            Concat(<<CacheRoot, dep.username, <<"/">>, dep.repository, <<"/">>,
                     dep.repository, JarExt>>)

\* the cache path resolve computes for a fetch dependency
filepath_of(dep, name) ==
    CASE dep.kind = "FetchFromUrl" ->
            Concat(<<CacheRoot, name, <<"/">>, name, JarExt>>)
      [] dep.kind = "FetchFromMaven" ->
            Concat(<<CacheRoot, dep.group_id, <<"/">>, dep.artifact_id, <<"/">>,
                     dep.version, <<"/">>, dep.artifact_id, classifier_string(dep), JarExt>>)
      [] dep.kind = "FetchFromGithub" ->
            Concat(<<CacheRoot, dep.username, <<"/">>, dep.repository, <<"/">>,
                     dep.tag, <<"/">>, dep.repository, JarExt>>)

\* the URL resolve hands to files::download
full_url(dep) ==
    CASE dep.kind = "FetchFromUrl" -> dep.url
      [] dep.kind = "FetchFromMaven" ->
            Concat(<<dep.url, Replace(dep.group_id, ".", <<"/">>), <<"/">>,
                     dep.artifact_id, <<"/">>, dep.version, <<"/">>,
                     dep.artifact_name, classifier_string(dep), JarExt>>)
      [] dep.kind = "FetchFromGithub" ->
            Concat(<<GithubHost, dep.username, <<"/">>, dep.repository,
                     ReleasesDownload, dep.tag, <<"/">>, dep.asset, JarExt>>)

\* a slip: the FetchFromUrl arm gets the same "Nothing to do" early return
skips_existing_all(dep) == TRUE

\* whether the variant returns early ("Nothing to do") when the cache file exists
skips_existing(dep) == dep.kind \in {"FetchFromMaven", "FetchFromGithub"}

\* Dependency::resolve for FetchFromUrl, FetchFromMaven and FetchFromGithub:
\* [res, cache, dirs, decision, existed, fetched, wrote, url]
resolve(dep, name, update, files, ds, ext) ==
    LET filepath == filepath_of(dep, name)
        decision == should_update(dep.update_policy, update)
        existed == filepath \in files
        parents == ensure_parents(filepath, ds, ext)
        dl == download(filepath, files, ext)
        base == [res |-> Ok(<<filepath>>), cache |-> files, dirs |-> ds,
                 decision |-> decision, existed |-> existed,
                 fetched |-> FALSE, wrote |-> FALSE, url |-> <<>>]
    IN  IF ~decision THEN base
        ELSE IF ~parents.ok THEN [base EXCEPT !.res = Err(1)]
        ELSE IF skips_existing(dep) /\ existed
             THEN [base EXCEPT !.dirs = parents.dirs]
        ELSE [base EXCEPT !.res = IF dl.res.ok THEN Ok(<<filepath>>) ELSE dl.res,
                          !.cache = dl.cache,
                          !.dirs = parents.dirs,
                          !.fetched = TRUE,
                          !.wrote = dl.wrote,
                          !.url = full_url(dep)]

(***************************************************************************)
(* The dependency declarations of project.toml the model draws from.       *)
(***************************************************************************)

MaxResolves == 3

ComExample == <<"c","o","m",".","e","x","a","m","p","l","e">>
Lib == <<"l","i","b">>
OneZero == <<"1",".","0">>

DepNames == {Lib, <<"x">>}

MavenBase ==
    ("type" :> TStr("fetchFromMaven")) @@ ("group_id" :> TStr(ComExample))
        @@ ("artifact_id" :> TStr(Lib)) @@ ("version" :> TStr(OneZero))

UrlBase ==
    ("type" :> TStr("fetchFromUrl"))
        @@ ("url" :> TStr(<<"h","t","t","p",":","/","/","h","/","x",".","j","a","r">>))

GithubBase ==
    ("type" :> TStr("fetchFromGithub")) @@ ("username" :> TStr(<<"k","h">>))
        @@ ("repository" :> TStr(<<"w","i","s">>)) @@ ("tag" :> TStr(<<"v","1">>))

WithPolicy(toml, p) == toml @@ ("update_policy" :> TStr(p))

Declarations ==
    {MavenBase, UrlBase, GithubBase}
    \cup {WithPolicy(MavenBase, p) : p \in UpdatePolicies}
    \cup {WithPolicy(UrlBase, p) : p \in {"Always", "Never", "UpdateOnly"}}
    \cup {WithPolicy(GithubBase, p) : p \in {"Always", "Never", "UpdateOnly"}}
    \cup {MavenBase @@ ("classifier" :> TStr(<<"s","r","c">>)),
          MavenBase @@ ("artifact_name" :> TStr(<<"l","i","b","-","a","l","l">>)),
          MavenBase @@ ("url" :> TStr(<<"h","t","t","p",":","/","/","m","/">>)),
          ("type" :> TStr("fetchFromMaven")) @@ ("group_id" :> TStr(<<"o","r","g">>))
              @@ ("artifact_id" :> TStr(Lib)),
          GithubBase @@ ("asset" :> TStr(<<"w","-","c","l","i">>)),
          \* declarations Dependency::load rejects
          WithPolicy(MavenBase, "Sometimes"),
          ("type" :> TStr("fetchFromNowhere")),
          ("type" :> TStr("fetchFromMaven")) @@ ("artifact_id" :> TStr(Lib)),
          ("url" :> TStr(<<"u">>))}

\* what the last resolve call saw and did, before any call
NoCall ==
    [called |-> FALSE, name |-> <<>>, ctx |-> "ResolveOnly", policy |-> "Never",
     kind |-> "", res |-> Err(0), decision |-> FALSE, existed |-> FALSE,
     fetched |-> FALSE, wrote |-> FALSE, url |-> <<>>]

DepIdle ==
    /\ deps = <<>>
    /\ cache = {}
    /\ dirs = {}
    /\ resolves = <<>>
    /\ fetches = <<>>
    /\ returned = <<>>
    /\ last = NoCall

\* a loaded project with one declared dependency; the cache of an earlier run
\* may or may not hold its file
DepInit ==
    \E n \in DepNames, toml \in Declarations :
        /\ load(toml).ok
        /\ deps = (n :> load(toml).val)
        /\ \E had \in {"nothing", "directory", "file"} :
              LET f == filepath_of(deps[n], n)
              IN  /\ cache = IF had = "file" THEN {f} ELSE {}
                  /\ dirs = IF had = "nothing" THEN {} ELSE {PathPop(f)}
        /\ resolves = (n :> 0)
        /\ fetches = (n :> 0)
        /\ returned = (n :> {})
        /\ last = NoCall

\* one call of Dependency::resolve(name, environment, regexes, update)
Resolve ==
    \E n \in DOMAIN deps, update \in UpdateContexts, ext \in Exts :
        /\ resolves[n] < MaxResolves
        /\ LET r == resolve(deps[n], n, update, cache, dirs, ext)
           IN  /\ cache' = r.cache
               /\ dirs' = r.dirs
               /\ resolves' = [resolves EXCEPT ![n] = @ + 1]
               /\ fetches' = [fetches EXCEPT ![n] = IF r.fetched THEN @ + 1 ELSE @]
               /\ returned' = [returned EXCEPT
                                 ![n] = IF r.res.ok THEN @ \cup {r.res.val[1]} ELSE @]
               /\ last' = [called |-> TRUE, name |-> n, ctx |-> update,
                           policy |-> deps[n].update_policy, kind |-> deps[n].kind,
                           res |-> r.res, decision |-> r.decision,
                           existed |-> r.existed, fetched |-> r.fetched,
                           wrote |-> r.wrote, url |-> r.url]
        /\ UNCHANGED deps

(***************************************************************************)
(* Two dependencies of one project resolved one after the other into the   *)
(* same cache.                                                             *)
(***************************************************************************)

\* a fetchFromMaven table with the coordinates given
MavenTable(group_id, artifact_id, version) ==
    ("type" :> TStr("fetchFromMaven")) @@ ("group_id" :> TStr(group_id))
        @@ ("artifact_id" :> TStr(artifact_id)) @@ ("version" :> TStr(version))

PairShapes ==
    {"maven", "maven-mirror", "maven-named", "maven-classified", "maven-next",
     "maven-kh", "maven-deep", "maven-deeper",
     "github", "github-asset", "github-next", "url", "url-other"}

\* the declarations of project.toml a pair is drawn from
PairTable(shape) ==
    CASE shape = "maven" -> MavenBase
      [] shape = "maven-mirror" ->
            MavenBase @@ ("url" :> TStr(<<"h","t","t","p",":","/","/","m","/">>))
      [] shape = "maven-named" ->
            MavenBase @@ ("artifact_name" :> TStr(<<"l","i","b","-","a","l","l">>))
      [] shape = "maven-classified" -> MavenBase @@ ("classifier" :> TStr(<<"s","r","c">>))
      [] shape = "maven-next" -> MavenTable(ComExample, Lib, <<"2",".","0">>)
      [] shape = "maven-kh" -> MavenTable(<<"k","h">>, <<"w","i","s">>, <<"v","1">>)
      [] shape = "maven-deep" -> MavenTable(<<"a">>, <<"c">>, <<"c","/","d">>)
      [] shape = "maven-deeper" -> MavenTable(<<"a","/","c">>, <<"c">>, <<"d">>)
      [] shape = "github" -> GithubBase
      [] shape = "github-asset" -> GithubBase @@ ("asset" :> TStr(<<"w","-","c","l","i">>))
      [] shape = "github-next" -> GithubBase @@ ("tag" :> TStr(<<"v","2">>))
      [] shape = "url" -> UrlBase
      [] shape = "url-other" ->
            ("type" :> TStr("fetchFromUrl"))
                @@ ("url" :> TStr(<<"h","t","t","p",":","/","/","h","/","y",".","j","a","r">>))

NoPair == [first |-> "", second |-> "", names |-> <<>>]
NotResolved == [called |-> FALSE, first |-> Err(0), second |-> Err(0), reused |-> FALSE]

PathsIdle == cpair = NoPair /\ cres = NotResolved

\* two different declarations under two different names
PathsInit ==
    /\ \E s1, s2 \in PairShapes, names \in {<<Lib, <<"x">>>>, <<<<"x">>, Lib>>} :
          /\ s1 # s2
          /\ cpair = [first |-> s1, second |-> s2, names |-> names]
    /\ cres = NotResolved

\* Dependency::resolve on the first and then on the second, the cache empty
\* before the first
ResolvePair ==
    /\ ~cres.called
    /\ \E update \in UpdateContexts, ext1, ext2 \in Exts :
          LET d1 == load(PairTable(cpair.first)).val
              d2 == load(PairTable(cpair.second)).val
              r1 == resolve(d1, cpair.names[1], update, {}, {}, ext1)
              r2 == resolve(d2, cpair.names[2], update, r1.cache, r1.dirs, ext2)
          IN  cres' = [called |-> TRUE, first |-> r1.res, second |-> r2.res,
                       reused |-> r2.res.ok /\ r2.existed]
    /\ UNCHANGED cpair

(***************************************************************************)
(* template.rs: generate_classpath, the loop over the configuration's      *)
(* dependencies.                                                           *)
(***************************************************************************)

RECURSIVE add_libraries(_, _, _, _, _, _)
\* the "Add libraries" loop: names are the dependency names still to visit,
\* exts what the outside world answers to each visit, done the record of what
\* happened so far: [res, attempted, failed, unknown, entries, cache, dirs].
\* An unknown name is passed over; the first error ends the loop
add_libraries(names, exts, dependencies, files, ds, done) ==
    IF names = <<>> THEN [done EXCEPT !.cache = files, !.dirs = ds]
    ELSE LET d == Head(names)
         IN  IF d \notin DOMAIN dependencies
             THEN add_libraries(Tail(names), Tail(exts), dependencies, files, ds,
                                [done EXCEPT !.unknown = Append(@, d)])
             ELSE LET r == resolve(dependencies[d], d, "ResolveOnly", files, ds, Head(exts))
                      seen == [done EXCEPT !.attempted = Append(@, d)]
                  IN  IF r.res.ok
                      THEN add_libraries(Tail(names), Tail(exts), dependencies,
                                         r.cache, r.dirs,
                                         [seen EXCEPT !.entries = @ \o r.res.val])
                      ELSE [seen EXCEPT !.res = Err(r.res.code),
                                        !.failed = Append(@, d),
                                        !.cache = r.cache, !.dirs = r.dirs]

\* template::generate_classpath, as far as the dependencies go
generate_classpath(names, exts, dependencies, files, ds) ==
    add_libraries(names, exts, dependencies, files, ds,
                  [res |-> Ok(<<>>), attempted |-> <<>>, failed |-> <<>>,
                   unknown |-> <<>>, entries |-> <<>>, cache |-> files, dirs |-> ds])

DepX == <<"x">>
DepY == <<"y">>
DepZ == <<"z">>

\* the dependency lists of the configuration; z is not declared by the project
ClasspathLists ==
    {<<>>, <<DepY>>, <<Lib, DepX, DepY>>, <<DepX, Lib, DepY>>, <<Lib, DepZ, DepX>>,
     <<DepZ, DepY, Lib>>, <<Lib, Lib>>}

NotGenerated ==
    [called |-> FALSE, res |-> Err(0), attempted |-> <<>>, failed |-> <<>>,
     unknown |-> <<>>, entries |-> <<>>]

ClasspathIdle == cpnames = <<>> /\ cpresult = NotGenerated

\* a project with three fetched dependencies and one configuration
ClasspathInit ==
    /\ \E pl, px \in {"Always", "Never"} :
          deps = (Lib :> load(WithPolicy(MavenBase, pl)).val)
                 @@ (DepX :> load(WithPolicy(UrlBase, px)).val)
                 @@ (DepY :> load(WithPolicy(GithubBase, "Always")).val)
    /\ \E had \in BOOLEAN :
          /\ cache = IF had THEN {filepath_of(deps[DepY], DepY)} ELSE {}
          /\ dirs = IF had THEN {PathPop(filepath_of(deps[DepY], DepY))} ELSE {}
    /\ resolves = [n \in DOMAIN deps |-> 0]
    /\ fetches = [n \in DOMAIN deps |-> 0]
    /\ returned = [n \in DOMAIN deps |-> {}]
    /\ last = NoCall
    /\ cpnames \in ClasspathLists
    /\ cpresult = NotGenerated

\* template::generate_classpath(project, configuration, regexes)
GenerateClasspath ==
    /\ ~cpresult.called
    /\ \E exts \in [1..Len(cpnames) -> Exts] :
          LET r == generate_classpath(cpnames, exts, deps, cache, dirs)
              count(l, n) == Cardinality({i \in 1..Len(l) : l[i] = n})
          IN  /\ cache' = r.cache
              /\ dirs' = r.dirs
              /\ resolves' = [n \in DOMAIN deps |-> resolves[n] + count(r.attempted, n)]
              /\ cpresult' = [called |-> TRUE, res |-> r.res, attempted |-> r.attempted,
                              failed |-> r.failed, unknown |-> r.unknown,
                              entries |-> r.entries]
    /\ UNCHANGED <<deps, fetches, returned, last, cpnames>>

(***************************************************************************)
(* source.rs: collect_files, canonicalize_path, generate_source.           *)
(***************************************************************************)

\* java::get_seperator on a non-Windows host
platform_seperator == ":"

DotJava == <<".","j","a","v","a">>

\* str::ends_with
EndsWith(s, p) ==
    /\ Len(p) <= Len(s)
    /\ SubSeq(s, Len(s) - Len(p) + 1, Len(s)) = p

RECURSIVE ReplaceAll(_, _, _)
\* str::replace(pat, r) for a non-empty pattern: leftmost non-overlapping matches
ReplaceAll(s, pat, r) ==
    IF Len(s) < Len(pat) THEN s
    ELSE IF SubSeq(s, 1, Len(pat)) = pat
         THEN r \o ReplaceAll(SubSeq(s, Len(pat) + 1, Len(s)), pat, r)
         ELSE <<Head(s)>> \o ReplaceAll(Tail(s), pat, r)

\* a slip: the trailing separator is left in place
Pop_forgotten(s) == s

\* String::pop
Pop(s) == IF s = <<>> THEN s ELSE SubSeq(s, 1, Len(s) - 1)

\* source::canonicalize_path, for paths without "~", {PROJECT_NAME} or {TASK_NAME}:
\* "./" is removed and the path is joined to the working directory
canonicalize_path(path_string) ==
    WorkingDirectory \o <<"/">> \o ReplaceAll(path_string, <<".","/">>, <<>>)

RECURSIVE FilterJava(_)
\* source::collect_files_relative: the entries that end with ".java", in order
FilterJava(entries) ==
    IF entries = <<>> THEN <<>>
    ELSE (IF EndsWith(Head(entries), DotJava) THEN <<Head(entries)>> ELSE <<>>)
             \o FilterJava(Tail(entries))

\* source::collect_files on one source root of the tree tr
collect_files(tr, source) ==
    LET found == IF source \in DOMAIN tr THEN FilterJava(tr[source]) ELSE <<>>
    IN  [i \in 1..Len(found) |-> canonicalize_path(found[i])]

NoMtime == -1

\* a slip in the comparison: "not later than" instead of "strictly earlier than"
is_unmodified_lte(fl, md, tk, mtime) ==
    /\ ~fl.recompile_all
    /\ md.last_compiled_task # None /\ md.last_compiled_task = tk.name
    /\ mtime # NoMtime
    /\ mtime <= md.last_compilation_time

\* the test generate_source makes before it skips a file: no --recompile-all,
\* the stored task is this task, the file's mtime can be read and is earlier
\* than the stored compilation time
is_unmodified(fl, md, tk, mtime) ==
    /\ ~fl.recompile_all
    /\ md.last_compiled_task # None /\ md.last_compiled_task = tk.name
    /\ mtime # NoMtime
    /\ mtime < md.last_compilation_time

RECURSIVE push_files(_, _, _, _, _, _)
\* the inner loop of generate_source over the files of one root
push_files(source_files, sources, fl, md, tk, mt) ==
    IF sources = <<>> THEN source_files
    ELSE LET s == Head(sources)
             mtime == IF s \in DOMAIN mt THEN mt[s] ELSE NoMtime
         IN  IF is_unmodified(fl, md, tk, mtime)
             THEN push_files(source_files, Tail(sources), fl, md, tk, mt)
             ELSE push_files(source_files \o s \o <<platform_seperator>>,
                             Tail(sources), fl, md, tk, mt)

RECURSIVE generate_source_from(_, _, _, _, _, _, _, _)
\* the outer loop of generate_source from root number i on
generate_source_from(i, source_files, source_paths, tk, tr, fl, md, mt) ==
    IF i > Len(tk.sources)
    THEN [source_paths |-> Pop(source_paths), source_files |-> source_files]
    ELSE LET source == tk.sources[i]
             started == IF i = 1 THEN source_files
                        ELSE source_files \o <<platform_seperator>>
             pushed == push_files(started, collect_files(tr, source), fl, md, tk, mt)
         IN  generate_source_from(i + 1, Pop(pushed),
                                  source_paths \o source \o <<" ">>, tk, tr, fl, md, mt)

\* source::generate_source
generate_source(tk, tr, fl, md, mt) ==
    generate_source_from(1, <<>>, <<>>, tk, tr, fl, md, mt)

(***************************************************************************)
(* java/manifest.rs: ManifestEntry::to_header for ClassPath.  A String is  *)
(* its sequence of bytes; a character of two bytes is the byte "C3"        *)
(* followed by the continuation byte "A9".                                 *)
(***************************************************************************)

FirstWidth == 71
NextWidth == 70

ClassPathKey == <<"C","l","a","s","s","-","P","a","t","h",":"," ">>
Newline == "\n"
ContinuationByte == "A9"

\* str::is_char_boundary
IsCharBoundary(s, i) == i = 0 \/ i >= Len(s) \/ s[i + 1] # ContinuationByte

RECURSIVE path_joined(_)
\* the first loop of the ClassPath arm: every entry followed by a space
path_joined(path) ==
    IF path = <<>> THEN <<>>
    ELSE Head(path) \o <<" ">> \o path_joined(Tail(path))

RECURSIVE chop_same_width(_, _, _)
\* a slip: upper is not lowered after the first line
chop_same_width(attribute_raw, attribute, upper) ==
    IF attribute_raw = <<>> THEN Ok(attribute)
    ELSE LET end == IF upper < Len(attribute_raw) THEN upper ELSE Len(attribute_raw)
         IN  IF ~IsCharBoundary(attribute_raw, end) THEN Err(101)
             ELSE chop_same_width(SubSeq(attribute_raw, end + 1, Len(attribute_raw)),
                                  attribute \o SubSeq(attribute_raw, 1, end)
                                            \o <<Newline, " ">>,
                                  upper)

RECURSIVE chop(_, _, _)
\* the while loop of the ClassPath arm; slicing inside a character panics
\* (code 101 stands for the panic)
chop(attribute_raw, attribute, upper) ==
    IF attribute_raw = <<>> THEN Ok(attribute)
    ELSE LET end == IF upper < Len(attribute_raw) THEN upper ELSE Len(attribute_raw)
         IN  IF ~IsCharBoundary(attribute_raw, end) THEN Err(101)
             ELSE chop(SubSeq(attribute_raw, end + 1, Len(attribute_raw)),
                       attribute \o SubSeq(attribute_raw, 1, end) \o <<Newline, " ">>,
                       NextWidth)

\* the attribute before it is chopped: "Class-Path: " and the entries, with
\* the last character popped
attribute_raw_of(path) == Pop(ClassPathKey \o path_joined(path))

\* ManifestEntry::to_header, ClassPath
to_header(path) ==
    LET chopped == chop(attribute_raw_of(path), <<>>, FirstWidth)
    IN  IF chopped.ok THEN Ok(Pop(chopped.val)) ELSE chopped

MaxPath == 3

\* n bytes of a one-byte character
Bytes(n, c) == [i \in 1..n |-> c]

\* class-path entries of the lengths at which the lines fill up
PathEntries ==
    {<<"a">>, Bytes(10, "b"), Bytes(29, "c"), Bytes(58, "d"), Bytes(59, "e"),
     Bytes(60, "f"), Bytes(69, "g"), Bytes(140, "h"),
     Bytes(58, "i") \o <<"C3", ContinuationByte>>,
     <<"l", " ", "m">>}

NoHeader == [called |-> FALSE, res |-> Err(0)]

ManifestIdle == mpath = <<>> /\ mheader = NoHeader

ManifestInit ==
    /\ \E n \in 0..MaxPath : mpath \in [1..n -> PathEntries]
    /\ mheader = NoHeader

\* ManifestEntry::ClassPath{ path }.to_header()
ToHeader ==
    /\ ~mheader.called
    /\ mheader' = [called |-> TRUE, res |-> to_header(mpath)]
    /\ UNCHANGED mpath

(***************************************************************************)
(* builder.rs: package, with source.rs: generate_inputs,                   *)
(* extract_shaded_jars and clean_shaded_classes.  An archive is what the   *)
(* archiver was told to put into it; a digest is the archive it was taken  *)
(* of, so that two digests are equal exactly when the archives are.        *)
(***************************************************************************)

MaxTargets == 2

TargetNames == {"out/a.jar", "b.jar"}
ShadedFolder == "target/shaded-classes/"
ManifestFolder == <<"M","E","T","A","-","I","N","F">>

NoFile == [present |-> FALSE, stale |-> FALSE, args |-> <<>>, shaded |-> {}]
\* a file left at the target's path by an earlier run
StaleFile == [present |-> TRUE, stale |-> TRUE, args |-> <<>>, shaded |-> {}]
\* jar -cMf target includes... -C bin/ .
Artifact(args) == [present |-> TRUE, stale |-> FALSE, args |-> args, shaded |-> {}]
\* jar -uf target -C target/shaded-classes/ .
Shaded(file, dir) == [file EXCEPT !.shaded = @ \cup dir]

\* the first field of the output of sha256sum
sha256sum(file) == <<file>>

RECURSIVE push_includes(_)
\* the loop of generate_inputs: every include followed by a space
push_includes(inputs) ==
    IF inputs = <<>> THEN <<>>
    ELSE Head(inputs) \o <<" ">> \o push_includes(Tail(inputs))

\* source::generate_inputs
generate_inputs(tk) ==
    IF IsSome(tk.includes)
    THEN LET includes == push_includes(tk.includes[1])
         IN  IF includes = <<>> THEN <<>> ELSE SubSeq(includes, 1, Len(includes) - 1)
    ELSE <<>>

\* source::clean_shaded_classes
clean_shaded_classes(dir) == {}

RECURSIVE extract_jars(_, _, _)
\* the loop of extract_shaded_jars; File::open fails on a missing archive
extract_jars(jars, missing, st) ==
    IF jars = <<>> THEN st
    ELSE IF Head(jars) \in missing THEN [st EXCEPT !.exit = 2]
    ELSE extract_jars(Tail(jars), missing, [st EXCEPT !.dir = @ \cup {Head(jars)}])

\* source::extract_shaded_jars
extract_shaded_jars(tk, env) ==
    IF IsSome(tk.shaded)
    THEN extract_jars(tk.shaded[1], env.missing,
                      [exit |-> 0, dir |-> clean_shaded_classes(env.shaded_dir)])
    ELSE [exit |-> 0, dir |-> env.shaded_dir]

RECURSIVE package_targets(_, _, _, _, _)
\* the loop over the targets
package_targets(targets, includes, tk, env, st) ==
    IF targets = <<>> \/ st.exit # 0 THEN st
    ELSE LET target == Head(targets)
             args == IF includes = <<>> THEN <<>> ELSE Split(includes, " ")
             made == Artifact(args)
         IN  IF ~env.mkdir_ok THEN [st EXCEPT !.exit = 4]
             ELSE IF st.fs[target].present /\ target \in env.locked
             THEN package_targets(Tail(targets), includes, tk, env, st)
             ELSE IF ~env.jar_ok
             THEN [st EXCEPT !.exit = 4, !.fs[target] = NoFile]
             ELSE package_targets(Tail(targets), includes, tk, env,
                      [st EXCEPT
                          !.fs[target] = made,
                          !.ran = IF st.hash = NoneOpt
                                  THEN @ \o <<<<"jar -cMf", target>>, <<"sha256sum", target>>>>
                                  ELSE @ \o <<<<"jar -cMf", target>>>>,
                          \* the jar -uf command is built and dropped: it never runs
                          !.hash = IF st.hash # NoneOpt THEN st.hash
                                   ELSE IF env.sha_ok THEN Some(sha256sum(made))
                                   ELSE Some(<<>>)])

\* builder::package
package(tk, targets, env) ==
    LET inputs == generate_inputs(tk)
        includes == IF IsSome(tk.entry)
                    THEN (IF inputs = <<>> THEN <<>> ELSE inputs \o <<" ">>) \o ManifestFolder
                    ELSE inputs
        extracted == extract_shaded_jars(tk, env)
        start == [exit |-> extracted.exit, hash |-> NoneOpt, fs |-> env.fs,
                  ran |-> <<>>, dir |-> extracted.dir,
                  manifest |-> IsSome(tk.entry) /\ ~env.use_existing_manifest]
        done == package_targets(targets, includes, tk, env, start)
    IN  IF done.exit # 0 THEN done
        ELSE [done EXCEPT !.dir = clean_shaded_classes(@)]

ShadedLists == {<<>>, <<"s.jar">>, <<"s.jar", "t.jar">>, <<"gone.jar">>}
IncludeLists == {<<>>, <<<<"r","e","s">>>>, <<<<"r","e","s">>, <<"d","o","c">>>>}

PackageTasks ==
    [entry : {NoneOpt, Some("Main")},
     includes : {NoneOpt} \cup {Some(l) : l \in IncludeLists},
     shaded : {NoneOpt} \cup {Some(l) : l \in ShadedLists}]

PackageEnvs ==
    [fs : [TargetNames -> {NoFile, StaleFile}],
     locked : SUBSET {"b.jar"},
     missing : {{"gone.jar"}},
     shaded_dir : {{}, {"old.jar"}},
     mkdir_ok : BOOLEAN, jar_ok : BOOLEAN, sha_ok : BOOLEAN,
     use_existing_manifest : BOOLEAN]

NotPackaged ==
    [called |-> FALSE, exit |-> 0, hash |-> NoneOpt, fs |-> [t \in TargetNames |-> NoFile],
     ran |-> <<>>, dir |-> {}, manifest |-> FALSE]

NoEnv ==
    [fs |-> [t \in TargetNames |-> NoFile], locked |-> {}, missing |-> {},
     shaded_dir |-> {}, mkdir_ok |-> TRUE, jar_ok |-> TRUE, sha_ok |-> TRUE,
     use_existing_manifest |-> FALSE]

PackageIdle ==
    /\ pktask = [entry |-> NoneOpt, includes |-> NoneOpt, shaded |-> NoneOpt]
    /\ pktargets = <<>>
    /\ pkenv = NoEnv
    /\ pkout = NotPackaged

PackageInit ==
    /\ pktask \in PackageTasks
    /\ \E n \in 0..MaxTargets : pktargets \in [1..n -> TargetNames]
    /\ pkenv \in PackageEnvs
    /\ pkout = NotPackaged

\* builder::package(task, project, targets, flags)
Package ==
    /\ ~pkout.called
    /\ pkout' = [called |-> TRUE] @@ package(pktask, pktargets, pkenv)
    /\ UNCHANGED <<pktask, pktargets, pkenv>>

(***************************************************************************)
(* builder.rs: build_task.                                                 *)
(***************************************************************************)

NoteMarker == <<"N","o","t","e",":"," ">>

\* what the compiler process may answer
StderrSamples ==
    {<<>>,
     NoteMarker,
     <<"N","o","t","e",":"," ","R","e","c","o","m","p","i","l","e">>,
     <<"N","o","t","e",":">>,
     <<"n","o","t","e",":"," ","x">>,
     <<" ","N","o","t","e",":"," ","x">>,
     <<"e","r","r","o","r",":"," ","x">>}

\* a slip: the purge is left out
clean_binary_folder_skipped(b) == b

\* fs::remove_dir_all("./bin/"): nothing is left of the folder; its error, as
\* when the folder does not exist, is dropped
clean_binary_folder_noerr(b) == {}

\* a slip: success is read off the exit status
compile_accepted_by_status(stderr, status) == status = 0

\* the test build_task makes on a compiler run: stderr empty, or starting "Note: "
compile_accepted(stderr, status) ==
    stderr = <<>> \/ StartsWith(stderr, NoteMarker)

\* a slip: the purge is missing where the compiler could not be started
purge_after_failure_stderr_only(b, spawn) ==
    IF spawn = "ok" THEN clean_binary_folder_noerr(b) ELSE b

\* bin/ after a failed compile step (either failure arm of build_task)
purge_after_failure(b, spawn) == clean_binary_folder_noerr(b)

\* the arguments String::split hands to the compiler
source_arguments(source_files) == Split(source_files, platform_seperator)

\* builder::build_task: [pc, bin, build].  out is the compiler process:
\*   out.spawn   "ok" | "err"     Command::output
\*   out.stderr, out.status       what the process answered
\*   out.wrote                    whether it left class files in bin/
\*   out.duration                 the time it took
build_task(tk, inf, md, b, out) ==
    LET switched == md.last_compiled_task # None /\ md.last_compiled_task # tk.name
        b1 == IF switched THEN clean_binary_folder_noerr(b) ELSE b
        args == source_arguments(inf.source_files)
        \* the class files of the arguments (an empty argument names no file)
        classes == IF out.spawn = "ok" /\ out.wrote
                   THEN {args[i] : i \in 1..Len(args)} \ {<<>>} ELSE {}
        b2 == b1 \cup classes
        base == [ran |-> FALSE, switched |-> switched, spawn |-> "none",
                 stderr |-> <<>>, status |-> 0, written |-> {},
                 targets |-> tk.output, duration |-> 0]
    IN  IF inf.source_files = <<>>
        THEN [pc |-> "returned", bin |-> b1, build |-> base]
        ELSE IF out.spawn = "err"
        THEN [pc |-> "exit3", bin |-> purge_after_failure(b2, "err"),
              build |-> [base EXCEPT !.ran = TRUE, !.spawn = "err"]]
        ELSE IF ~compile_accepted(out.stderr, out.status)
        THEN [pc |-> "exit3", bin |-> purge_after_failure(b2, "ok"),
              build |-> [base EXCEPT !.ran = TRUE, !.spawn = "ok",
                                     !.stderr = out.stderr, !.status = out.status,
                                     !.written = classes]]
        ELSE [pc |-> "returned", bin |-> b2,
              build |-> [base EXCEPT !.ran = TRUE, !.spawn = "ok",
                                     !.stderr = out.stderr, !.status = out.status,
                                     !.written = classes,
                                     !.duration = out.duration]]

(***************************************************************************)
(* compiler.rs: CompilerFlags::from.                                       *)
(***************************************************************************)

BooleanFlags ==
    {"enable_preview_features", "javadoc_all_lints", "source_all_lints",
     "no_warnings", "deprecation_info", "store_parameter_names"}

\* a value of the enum CompilerFlags: the variant and its payload, the payloads
\* a variant does not carry left at their defaults
Flag(name, payload) ==
    payload @@ [flag |-> name, int |-> 0, bool |-> FALSE, str |-> "", list |-> <<>>]

\* CompilerFlags::from
CompilerFlags_from(name, value) ==
    CASE name = "release_target" ->
            (IF value.ty # "integer" THEN Err(14)
             ELSE IF value.v < 0 THEN Err(52)
             ELSE IF value.v > 255 THEN Err(52)
             ELSE Ok(Flag(name, [int |-> value.v])))
      [] name \in BooleanFlags ->
            (IF value.ty = "boolean" THEN Ok(Flag(name, [bool |-> value.v]))
             ELSE Err(12))
      [] name \in {"javadoc_lints", "source_lints"} ->
            (IF value.ty # "array" THEN Err(13)
             ELSE IF \E i \in 1..Len(value.v) : value.v[i].ty # "string" THEN Err(15)
             ELSE IF value.v = <<>> THEN Err(51)
             ELSE Ok(Flag(name, [list |-> [i \in 1..Len(value.v) |-> value.v[i].v]])))
      [] name = "source_encoding" ->
            (IF value.ty = "string" THEN Ok(Flag(name, [str |-> value.v]))
             ELSE Err(11))
      [] OTHER -> Err(50)

(***************************************************************************)
(* configuration.rs: Configuration.                                        *)
(***************************************************************************)

\* a task object behind an Rc: its kind, and the allocation that made it
\* (owner: the configuration it was made for; site: where in Project::from)
TaskObject(kind, owner, site) == [kind |-> kind, owner |-> owner, site |-> site]

\* DefinedTask::new
DefinedTask_new(key, table, owner) == Ok(TaskObject("defined", owner, key))

\* the first error among results, or Ok
RECURSIVE FirstErr(_)
FirstErr(rs) ==
    IF rs = <<>> THEN Ok(<<>>)
    ELSE IF ~Head(rs).ok THEN Head(rs) ELSE FirstErr(Tail(rs))

\* the "task" match of Configuration::from: Ok(name -> task object) or the error
tasks_from(name, toml) ==
    IF "task" \notin DOMAIN toml THEN Ok(<<>>)
    ELSE IF toml["task"].ty # "table" THEN Err(16)
    ELSE LET v == toml["task"].v
             made == [i \in 1..Len(v) |->
                         IF v[i][2].ty = "table"
                         THEN DefinedTask_new(v[i][1], v[i][2], name)
                         ELSE Err(16)]
         IN  IF ~FirstErr(made).ok THEN FirstErr(made)
             ELSE Ok([k \in {v[i][1] : i \in 1..Len(v)} |->
                         made[CHOOSE i \in 1..Len(v) : v[i][1] = k].val])

\* the "environment" match of Configuration::from, seeded with project_name,
\* configuration and version
environment_from(name, toml, project_name, version) ==
    LET seeded == [k \in {"project_name", "configuration", "version"} |->
                      CASE k = "project_name" -> project_name
                        [] k = "configuration" -> name
                        [] k = "version" -> version]
    IN  IF "environment" \notin DOMAIN toml THEN Ok(seeded)
        ELSE IF toml["environment"].ty # "table" THEN Err(15)
        ELSE LET t == toml["environment"].v
             IN  IF \E i \in 1..Len(t) : t[i][2].ty # "string" THEN Err(15)
                 ELSE Ok([k \in {t[i][1] : i \in 1..Len(t)} |->
                             t[CHOOSE i \in 1..Len(t) : t[i][1] = k][2].v] @@ seeded)

\* the "compiler_flags" match of Configuration::from
compiler_flags_from(toml) ==
    IF "compiler_flags" \notin DOMAIN toml THEN Ok(NoneOpt)
    ELSE IF toml["compiler_flags"].ty # "table" THEN Err(16)
    ELSE LET t == toml["compiler_flags"].v
             made == [i \in 1..Len(t) |-> CompilerFlags_from(t[i][1], t[i][2])]
         IN  IF ~FirstErr(made).ok THEN FirstErr(made)
             ELSE Ok(Some([i \in 1..Len(t) |-> made[i].val]))

\* the natures of Configuration::from: "wisteria" is put first when missing
natures_from(toml) ==
    LET n == UnwrapOr(read_string_array("natures", toml), <<>>)
    IN  IF \E i \in 1..Len(n) : n[i] = "wisteria" THEN n ELSE <<"wisteria">> \o n

\* Configuration::from
Configuration_from(name, toml, project_name, version) ==
    LET tasks == tasks_from(name, toml)
        environment == environment_from(name, toml, project_name, version)
        compiler_flags == compiler_flags_from(toml)
    IN  IF ~tasks.ok THEN Err(tasks.code)
        ELSE IF ~environment.ok THEN Err(environment.code)
        ELSE IF ~compiler_flags.ok THEN Err(compiler_flags.code)
        ELSE Ok([name |-> name,
                 sources |-> OkOpt(read_string_array("sources", toml)),
                 dependencies |-> OkOpt(read_string_array("dependencies", toml)),
                 shaded |-> OkOpt(read_string_array("shaded", toml)),
                 includes |-> OkOpt(read_string_array("includes", toml)),
                 targets |-> OkOpt(read_string_array("targets", toml)),
                 entry |-> OkOpt(read_string("entry", toml)),
                 java_version |-> UnwrapOr(read_integer("java_version", toml), 8),
                 tasks |-> tasks.val,
                 compiler_flags |-> compiler_flags.val,
                 environment |-> environment.val,
                 natures |-> natures_from(toml),
                 inherit |-> OkOpt(read_string("inherit", toml))])

\* a slip: the test of self.targets is left out
apply_implicit_always(c, site) ==
    LET clean == ("clean" :> TaskObject("implicit_clean", c.name, site))
        both == ("build" :> TaskObject("implicit_build", c.name, site)) @@ clean
    IN  [c EXCEPT !.tasks = IF IsSome(c.sources) THEN both @@ @ ELSE clean @@ @]

\* a slip: HashMap::insert taken for an insert-if-absent
apply_implicit_if_absent(c, site) ==
    IF IsSome(c.targets)
    THEN LET clean == ("clean" :> TaskObject("implicit_clean", c.name, site))
             both == ("build" :> TaskObject("implicit_build", c.name, site)) @@ clean
         IN  [c EXCEPT !.tasks = IF IsSome(c.sources) THEN @ @@ both ELSE @ @@ clean]
    ELSE c

\* Configuration::apply_implicit; site tells the calls of Project::from apart
apply_implicit(c, site) ==
    IF IsSome(c.targets)
    THEN LET clean == ("clean" :> TaskObject("implicit_clean", c.name, site))
             both == ("build" :> TaskObject("implicit_build", c.name, site)) @@ clean
         IN  [c EXCEPT !.tasks = IF IsSome(c.sources) THEN both @@ @ ELSE clean @@ @]
    ELSE c

RECURSIVE push_missing(_, _)
\* the loop of inherit_vec: each host element the data does not contain is pushed
push_missing(data, host_data) ==
    IF host_data = <<>> THEN data
    ELSE LET s == Head(host_data)
         IN  push_missing(IF \E i \in 1..Len(data) : data[i] = s
                          THEN data ELSE Append(data, s),
                          Tail(host_data))

\* a slip: the contains test is left out
inherit_vec_append(inheritor, host) ==
    IF IsSome(inheritor)
    THEN IF IsSome(host) THEN Some(inheritor[1] \o host[1]) ELSE inheritor
    ELSE host

\* configuration::inherit_vec
inherit_vec(inheritor, host) ==
    IF IsSome(inheritor)
    THEN IF IsSome(host) THEN Some(push_missing(inheritor[1], host[1])) ELSE inheritor
    ELSE IF IsSome(host) THEN host
    ELSE NoneOpt

\* a slip: the parent's version only fills in for a child left at the default
inherit_java_version_if_default(own, host) == IF own = 8 THEN host ELSE own

\* the java_version assignment of inherit_from
inherit_java_version(own, host) == host

\* a slip: the parent's tasks are inserted over the child's
inherit_tasks_overwriting(own, host) == host @@ own

\* the task loop of inherit_from: a task is inserted (the same Rc, cloned)
\* under every key the child does not have
inherit_tasks(own, host) == own @@ host

\* the environment loop of inherit_from
inherit_environment(own, host) == own @@ host

\* Configuration::inherit_from
inherit_from(self, configuration) ==
    [self EXCEPT
        !.sources = inherit_vec(self.sources, configuration.sources),
        !.dependencies = inherit_vec(self.dependencies, configuration.dependencies),
        !.includes = inherit_vec(self.includes, configuration.includes),
        !.targets = inherit_vec(self.targets, configuration.targets),
        !.entry = IF ~IsSome(self.entry) /\ IsSome(configuration.entry)
                  THEN configuration.entry ELSE self.entry,
        !.java_version = inherit_java_version(self.java_version, configuration.java_version),
        !.tasks = inherit_tasks(self.tasks, configuration.tasks),
        !.compiler_flags = inherit_vec(self.compiler_flags, configuration.compiler_flags),
        !.environment = inherit_environment(self.environment, configuration.environment)]

(***************************************************************************)
(* A version number as java_version of a configuration and as the          *)
(* compiler flag release_target.  The integers are drawn from around the   *)
(* range of u8 and from the ends of the 32-bit range.                      *)
(***************************************************************************)

MaxVersion == 300

VersionKinds == {"absent", "integer", "string"}

Versions == (-MaxVersion..MaxVersion) \cup {65544, -65536, 2147483647, -2147483647}

\* the value under the key
VersionValue(kind, n) == IF kind = "integer" THEN TInt(n) ELSE TStr("17")

\* the configuration table that declares the version as java_version
VersionTable(kind, n) ==
    IF kind = "absent" THEN <<>> ELSE [java_version |-> VersionValue(kind, n)]

NotRead == [called |-> FALSE, res |-> Err(0)]

VersionsIdle == vkind = "absent" /\ vn = 0 /\ vconfig = NotRead /\ vflag = NotRead

VersionsInit ==
    /\ vkind \in VersionKinds
    /\ vn \in IF vkind = "integer" THEN Versions ELSE {0}
    /\ vconfig = NotRead
    /\ vflag = NotRead

\* Configuration::from on a table with the version under java_version
ConfigurationFrom ==
    /\ ~vconfig.called
    /\ LET c == Configuration_from("a", VersionTable(vkind, vn), "proj", "1.0")
       IN  vconfig' = [called |-> TRUE,
                       res |-> IF c.ok THEN Ok(c.val.java_version) ELSE Err(c.code)]
    /\ UNCHANGED <<vkind, vn, vflag>>

\* CompilerFlags::from("release_target", value)
CompilerFlagsFrom ==
    /\ ~vflag.called
    /\ vkind # "absent"
    /\ LET f == CompilerFlags_from("release_target", VersionValue(vkind, vn))
       IN  vflag' = [called |-> TRUE,
                     res |-> IF f.ok THEN Ok(f.val.int) ELSE Err(f.code)]
    /\ UNCHANGED <<vkind, vn, vconfig>>

(***************************************************************************)
(* One build invocation: BuildInformation::from, then build_task.          *)
(***************************************************************************)

MaxTime == 3

SrcRoot == <<"s","r","c">>
GenRoot == <<".","/","g","e","n">>
FileA == <<"s","r","c","/","A",".","j","a","v","a">>
FileB == <<"s","r","c","/","B",".","j","a","v","a">>
FileC == <<".","/","g","e","n","/","C",".","j","a","v","a">>
Readme == <<"s","r","c","/","n",".","t","x","t">>
OutJar == <<"o","u","t",".","j","a","r">>

TaskNames == {"main", "dev"}

NoInfo == [source_paths |-> <<>>, source_files |-> <<>>]
NoBuild ==
    [ran |-> FALSE, switched |-> FALSE, spawn |-> "none", stderr |-> <<>>,
     status |-> 0, written |-> {}, targets |-> <<>>, duration |-> 0]

BuildIdle ==
    /\ metadata = <<>> /\ flags = <<>> /\ task = <<>> /\ tree = <<>>
    /\ mtimes = <<>> /\ bin = {} /\ info = NoInfo /\ build = NoBuild /\ pc = "idle"

\* the java files of a tree, canonical
JavaFiles(tr) ==
    UNION {{collect_files(tr, r)[i] : i \in 1..Len(collect_files(tr, r))} : r \in DOMAIN tr}

\* the state a build invocation starts in: the task, the flags, the metadata
\* load_metadata read, the sources on disk, and what earlier builds left in bin/
BuildInit ==
    /\ task \in [name : TaskNames,
                 sources : {<<>>, <<SrcRoot>>, <<SrcRoot, GenRoot>>, <<GenRoot, SrcRoot>>},
                 output : {<<OutJar>>}]
    /\ flags \in [recompile_all : BOOLEAN]
    /\ metadata \in [last_compiled_task : {None} \cup TaskNames,
                     last_compilation_time : {0, 2}]
    /\ \E l1 \in {<<>>, <<FileA, Readme, FileB>>}, l2 \in {<<>>, <<FileC>>} :
          tree = (SrcRoot :> l1) @@ (GenRoot :> l2)
    /\ mtimes \in [JavaFiles(tree) -> {NoMtime} \cup 1..MaxTime]
    /\ bin \in {{}, JavaFiles(tree)}
    /\ info = NoInfo
    /\ build = NoBuild
    /\ pc = "start"

\* BuildInformation::from
GenerateSource ==
    /\ pc = "start"
    /\ info' = generate_source(task, tree, flags, metadata, mtimes)
    /\ pc' = "collected"
    /\ UNCHANGED <<metadata, flags, task, tree, mtimes, bin, build>>

CompilerOutcomes ==
    [spawn : {"ok"}, stderr : StderrSamples, status : {0, 1}, wrote : BOOLEAN,
     duration : {0, 5}]
    \cup [spawn : {"err"}, stderr : {<<>>}, status : {0}, wrote : {FALSE}, duration : {0}]

\* builder::build_task
BuildTask ==
    /\ pc = "collected"
    /\ \E out \in CompilerOutcomes :
          LET r == build_task(task, info, metadata, bin, out)
          IN  /\ bin' = r.bin
              /\ build' = r.build
              /\ pc' = r.pc
    /\ UNCHANGED <<metadata, flags, task, tree, mtimes, info>>

(***************************************************************************)
(* project.rs: Project::from.                                              *)
(***************************************************************************)

RECURSIVE load_configurations(_, _, _, _)
\* the first loop over the configuration table: each key is parsed, given its
\* implicit tasks and inserted; the first failure is returned
load_configurations(v, name, version, configurations) ==
    IF v = <<>> THEN Ok(configurations)
    ELSE LET key == Head(v)[1]
             config == Head(v)[2]
         IN  IF config.ty # "table" THEN Err(16)
             ELSE LET made == Configuration_from(key, config.v, name, version)
                  IN  IF ~made.ok THEN Err(made.code)
                      ELSE load_configurations(Tail(v), name, version,
                               (key :> apply_implicit(made.val, "loaded")) @@ configurations)

RECURSIVE inherit_configurations_noself(_, _, _)
\* a slip: the inheritor is never compared with its target
inherit_configurations_noself(order, configurations, updated_configurations) ==
    IF order = <<>> THEN Ok(updated_configurations)
    ELSE LET config_name == Head(order)
             configuration == configurations[config_name]
         IN  IF IsSome(configuration.inherit)
             THEN LET target == configuration.inherit[1]
                  IN  IF target \notin DOMAIN configurations THEN Err(41)
                      ELSE LET inheritor ==
                                   apply_implicit(
                                       inherit_from(configuration, configurations[target]),
                                       "inherited")
                           IN  inherit_configurations_noself(Tail(order), configurations,
                                   (config_name :> inheritor) @@ updated_configurations)
             ELSE inherit_configurations_noself(Tail(order), configurations,
                                                updated_configurations)

RECURSIVE inherit_configurations_transitive(_, _, _)
\* a slip: the target is taken from the configurations already updated, so an
\* inheritor visited after its target receives what the target inherited
inherit_configurations_transitive(order, configurations, updated_configurations) ==
    IF order = <<>> THEN Ok(updated_configurations)
    ELSE LET config_name == Head(order)
             configuration == configurations[config_name]
         IN  IF IsSome(configuration.inherit)
             THEN LET target == configuration.inherit[1]
                  IN  IF config_name = target THEN Err(40)
                      ELSE IF target \notin DOMAIN configurations THEN Err(41)
                      ELSE LET inheritor ==
                                   apply_implicit(
                                       inherit_from(configuration,
                                           (updated_configurations @@ configurations)[target]),
                                       "inherited")
                           IN  inherit_configurations_transitive(Tail(order), configurations,
                                   (config_name :> inheritor) @@ updated_configurations)
             ELSE inherit_configurations_transitive(Tail(order), configurations,
                                                    updated_configurations)

RECURSIVE inherit_configurations(_, _, _)
\* the inheritance loop, visiting the configurations in the given order
inherit_configurations(order, configurations, updated_configurations) ==
    IF order = <<>> THEN Ok(updated_configurations)
    ELSE LET config_name == Head(order)
             configuration == configurations[config_name]
         IN  IF IsSome(configuration.inherit)
             THEN LET target == configuration.inherit[1]
                  IN  IF config_name = target THEN Err(40)
                      ELSE IF target \notin DOMAIN configurations THEN Err(41)
                      ELSE LET inheritor ==
                                   apply_implicit(
                                       inherit_from(configuration, configurations[target]),
                                       "inherited")
                           IN  inherit_configurations(Tail(order), configurations,
                                   (config_name :> inheritor) @@ updated_configurations)
             ELSE inherit_configurations(Tail(order), configurations,
                                         updated_configurations)

\* the configurations field of ProjectInfo
project_configurations(configuration_map, name, version, order) ==
    IF ~IsSome(configuration_map) THEN Ok(<<>>)
    ELSE IF configuration_map[1].ty # "table" THEN Err(16)
    ELSE LET loaded == load_configurations(configuration_map[1].v, name, version, <<>>)
         IN  IF ~loaded.ok THEN loaded
             ELSE LET updated_configurations ==
                          inherit_configurations(
                              SelectSeq(order, LAMBDA k : k \in DOMAIN loaded.val),
                              loaded.val, <<>>)
                  IN  IF ~updated_configurations.ok THEN updated_configurations
                      ELSE Ok(updated_configurations.val @@ loaded.val)

RECURSIVE load_dependencies(_, _)
\* the loop over the dependency table
load_dependencies(v, dependencies) ==
    IF v = <<>> THEN Ok(dependencies)
    ELSE LET t == Head(v)[2]
         IN  IF t.ty # "table" THEN Err(16)
             ELSE LET dep == load(t.v)
                  IN  IF ~dep.ok THEN Err(dep.code)
                      ELSE load_dependencies(Tail(v), (Head(v)[1] :> dep.val) @@ dependencies)

\* Project::from; order is the order in which the HashMap of configurations
\* yields its entries
Project_from(toml, configuration_map, dependencies_map, order) ==
    LET name == read_string("name", toml)
        version == read_string("version", toml)
        description == read_string("description", toml)
    IN  IF ~name.ok THEN Err(name.code)
        ELSE IF ~version.ok THEN Err(version.code)
        ELSE IF ~description.ok THEN Err(description.code)
        ELSE LET configurations ==
                     project_configurations(configuration_map, name.val, version.val, order)
             IN  IF ~configurations.ok THEN Err(configurations.code)
                 ELSE LET dependencies ==
                              IF ~IsSome(dependencies_map) THEN Ok(<<>>)
                              ELSE IF dependencies_map[1].ty # "table" THEN Err(16)
                              ELSE load_dependencies(dependencies_map[1].v, <<>>)
                      IN  IF ~dependencies.ok THEN Err(dependencies.code)
                          ELSE Ok([name |-> name.val,
                                   version |-> version.val,
                                   description |-> description.val,
                                   configurations |-> configurations.val,
                                   dependencies |-> dependencies.val])

(***************************************************************************)
(* Configuration tables the specifications draw from.                      *)
(***************************************************************************)

\* an array of strings
StrArr(l) == TArr([i \in 1..Len(l) |-> TStr(l[i])])

ListShapes == {"absent", "empty", "a", "ab", "ba", "aa"}

\* the value of a list key, if the table has the key
ListOpt(shape) ==
    CASE shape = "absent" -> NoneOpt
      [] shape = "empty" -> Some(StrArr(<<>>))
      [] shape = "a" -> Some(StrArr(<<"a">>))
      [] shape = "ab" -> Some(StrArr(<<"a", "b">>))
      [] shape = "ba" -> Some(StrArr(<<"b", "a">>))
      [] shape = "aa" -> Some(StrArr(<<"a", "a">>))
      [] shape = "string" -> Some(TStr("a"))
      [] shape = "integer" -> Some(TInt(1))
      [] shape = "mixed" -> Some(TArr(<<TStr("a"), TInt(1)>>))

\* a table with the key, or the empty table
Field(key, opt) == IF IsSome(opt) THEN key :> opt[1] ELSE <<>>

ScalarShapes == {"bare", "release", "legacy", "tooling"}

\* the keys of a configuration table that are not lists of paths
Scalars(shape) ==
    CASE shape = "bare" -> <<>>
      [] shape = "release" ->
            [entry |-> TStr("M"),
             java_version |-> TInt(17),
             task |-> TTable(<< <<"build", TTable(<<>>)>> >>),
             environment |-> TTable(<< <<"k", TStr("c")>>, <<"version", TStr("9")>> >>),
             compiler_flags |-> TTable(<< <<"no_warnings", TBool(TRUE)>>,
                                          <<"release_target", TInt(17)>> >>)]
      [] shape = "legacy" ->
            [entry |-> TStr("N"),
             java_version |-> TInt(264),
             task |-> TTable(<< <<"t", TTable(<<>>)>> >>),
             environment |-> TTable(<< <<"j", TStr("q")>>, <<"k", TStr("p")>> >>),
             compiler_flags |-> TTable(<< <<"no_warnings", TBool(TRUE)>> >>)]
      [] shape = "tooling" ->
            [java_version |-> TInt(11),
             task |-> TTable(<< <<"clean", TTable(<<>>)>>, <<"t", TTable(<<>>)>> >>),
             natures |-> StrArr(<<"eclipse">>),
             compiler_flags |-> TTable(<< <<"release_target", TInt(11)>>,
                                          <<"source_encoding", TStr("utf8")>> >>)]
      [] shape = "mistyped" -> [entry |-> TInt(1), java_version |-> TStr("17")]
      [] shape = "badtask" -> [task |-> TStr("build")]
      [] shape = "badenvironment" -> [environment |-> TTable(<< <<"k", TInt(1)>> >>)]
      [] shape = "badflag" -> [compiler_flags |-> TTable(<< <<"release_target", TInt(256)>> >>)]

\* a configuration table: paths gives sources and includes, names gives
\* dependencies, shaded and targets
ConfigToml(paths, names, scalars, inherit) ==
    Field("sources", ListOpt(paths)) @@ Field("includes", ListOpt(paths))
    @@ Field("dependencies", ListOpt(names)) @@ Field("shaded", ListOpt(names))
    @@ Field("targets", ListOpt(names))
    @@ Scalars(scalars)
    @@ Field("inherit", IF inherit = None THEN NoneOpt ELSE Some(TStr(inherit)))

(***************************************************************************)
(* Repeated inheritance: one child, one parent, inherit_from applied again *)
(* and again.                                                              *)
(***************************************************************************)

MaxInherits == 3

NameShapes == {"absent", "a", "ab"}

\* the configurations Configuration::from makes of the tables above
Parsed(name, implicit) ==
    {LET c == Configuration_from(name, ConfigToml(paths, names, scalars, None),
                                 "proj", "1.0").val
     IN  IF implicit THEN apply_implicit(c, "loaded") ELSE c :
        paths \in ListShapes, names \in NameShapes, scalars \in ScalarShapes}

InheritIdle ==
    /\ child = <<>> /\ parent = <<>> /\ applied = 0
    /\ firstResult = <<>> /\ original = <<>>

InheritInit ==
    /\ \E implicit \in BOOLEAN :
          /\ child \in Parsed("dev", implicit)
          /\ parent \in Parsed("base", implicit)
    /\ applied = 0
    /\ original = child
    /\ firstResult = child

\* self.inherit_from(&parent)
InheritFrom ==
    /\ applied < MaxInherits
    /\ child' = inherit_from(child, parent)
    /\ applied' = applied + 1
    /\ firstResult' = IF applied = 0 THEN child' ELSE firstResult
    /\ UNCHANGED <<parent, original>>

(***************************************************************************)
(* Loading a project.                                                      *)
(***************************************************************************)

ConfigNames == <<"a", "b", "c">>

\* every order in which a HashMap of the three configurations can be walked
Orders ==
    {o \in [1..Len(ConfigNames) -> {ConfigNames[i] : i \in 1..Len(ConfigNames)}] :
        \A i, j \in 1..Len(ConfigNames) : i # j => o[i] # o[j]}

TableShapes == {"lib", "app", "bare", "loose", "mistyped", "badtask", "nottable"}

\* the value under a key of the configuration table
ConfigValue(shape, inherit) ==
    CASE shape = "lib" -> TTable(ConfigToml("ab", "a", "release", inherit))
      [] shape = "app" -> TTable(ConfigToml("ba", "ab", "legacy", inherit))
      [] shape = "bare" -> TTable(ConfigToml("absent", "absent", "bare", inherit))
      [] shape = "loose" -> TTable(ConfigToml("string", "mixed", "tooling", inherit))
      [] shape = "mistyped" -> TTable(ConfigToml("integer", "a", "mistyped", inherit))
      [] shape = "badtask" -> TTable(ConfigToml("a", "a", "badtask", inherit))
      [] shape = "nottable" -> TStr("lib")

InheritTargets == {None, "a", "b", "c", "zz"}

DocumentShapes ==
    {"full", "nodescription", "baddependency", "noconfiguration", "configurationstring"}

\* the project document: the root table, the configuration value and the
\* dependencies value
Document(shape, tables) ==
    [toml |-> [name |-> TStr("proj"), version |-> TStr("1.0")]
              @@ (IF shape = "nodescription" THEN <<>>
                  ELSE [description |-> TStr("d")]),
     configuration_map |->
         CASE shape = "noconfiguration" -> NoneOpt
           [] shape = "configurationstring" -> Some(TStr("a"))
           [] OTHER -> Some(TTable(tables)),
     dependencies_map |->
         CASE shape = "baddependency" ->
                  Some(TTable(<< <<Lib, TTable([type |-> TStr("jar")])>> >>))
           [] shape = "full" -> Some(TTable(<< <<Lib, TTable(MavenBase)>> >>))
           [] OTHER -> NoneOpt]

NotCalled == [called |-> FALSE, order |-> <<>>, res |-> Err(0)]

ProjectIdle == ptoml = <<>> /\ presult = NotCalled

ProjectInit ==
    /\ \E doc \in DocumentShapes,
          sa, sb \in TableShapes, sc \in {"lib", "bare"},
          ia, ib \in InheritTargets, ic \in {None, "a", "c"} :
          ptoml = Document(doc, << <<"a", ConfigValue(sa, ia)>>,
                                   <<"b", ConfigValue(sb, ib)>>,
                                   <<"c", ConfigValue(sc, ic)>> >>)
    /\ presult = NotCalled

\* Project::from(&toml, configuration_map, dependencies_map)
ProjectFrom ==
    /\ ~presult.called
    /\ \E order \in Orders :
          presult' = [called |-> TRUE, order |-> order,
                      res |-> Project_from(ptoml.toml, ptoml.configuration_map,
                                           ptoml.dependencies_map, order)]
    /\ UNCHANGED ptoml

(***************************************************************************)
(* metadata.rs: Metadata and load_metadata.  The integers of the file are  *)
(* drawn from 0 .. 2^31 - 1, where `as u32` and `as u128` keep the value.  *)
(***************************************************************************)

HistoryLimit == 30
MaxBuilds == 2

NoMetadata ==
    [last_compiled_task |-> None, last_compilation_time |-> 0, compilation_times |-> <<>>]

\* Metadata::from
Metadata_from(last_compiled_task, last_compilation_time, compilation_times) ==
    [last_compiled_task |-> last_compiled_task,
     last_compilation_time |-> last_compilation_time,
     compilation_times |-> compilation_times]

\* Metadata::to_table
to_table(md) ==
    [last_compiled_task |-> TStr(md.last_compiled_task),
     last_compilation_time |-> TInt(md.last_compilation_time),
     compilation_times |->
         TArr([i \in 1..Len(md.compilation_times) |-> TInt(md.compilation_times[i])])]

RECURSIVE filter_integers(_)
\* the filter_map of load_metadata: the integers of the array, in order
filter_integers(values) ==
    IF values = <<>> THEN <<>>
    ELSE IF Head(values).ty = "integer"
         THEN <<Head(values).v>> \o filter_integers(Tail(values))
         ELSE filter_integers(Tail(values))

\* metadata::load_metadata: [exit, md]
load_metadata(file) ==
    CASE file.state = "absent" -> [exit |-> 0, md |-> NoMetadata]
      [] file.state = "unreadable" -> [exit |-> 242, md |-> NoMetadata]
      [] file.state = "corrupt" -> [exit |-> 0, md |-> NoMetadata]
      [] OTHER ->
            LET t == file.table
                has(k, ty) == k \in DOMAIN t /\ t[k].ty = ty
            IN  [exit |-> 0,
                 md |-> [last_compiled_task |->
                             IF has("last_compiled_task", "string")
                             THEN t["last_compiled_task"].v ELSE None,
                         last_compilation_time |->
                             IF has("last_compilation_time", "integer")
                             THEN t["last_compilation_time"].v ELSE 0,
                         compilation_times |->
                             IF has("compilation_times", "array")
                             THEN filter_integers(t["compilation_times"].v) ELSE <<>>]]

\* recording a compile duration: a full history loses its oldest entry first
push_compilation_time(times, sample) ==
    IF Len(times) >= HistoryLimit THEN Append(Tail(times), sample)
    ELSE Append(times, sample)

\* a file that holds a table
TableFile(t) == [state |-> "table", table |-> t]
NoTable == [state |-> "absent", table |-> <<>>]

\* n durations, the oldest first
Durations(n) == [i \in 1..n |-> i]

HistoryLengths == {0, 1, 29, 30, 31}

FileShapes == {"absent", "unreadable", "corrupt", "written", "mixed", "mistyped"}

\* the .wisteria file an invocation may find
MetadataFile(shape, tk, n) ==
    CASE shape = "written" -> TableFile(to_table(Metadata_from(tk, 2, Durations(n))))
      [] shape = "mixed" ->
            TableFile([compilation_times |-> TArr(<<TInt(4), TStr("5"), TInt(6)>>)])
      [] shape = "mistyped" ->
            TableFile([last_compiled_task |-> TInt(1),
                       last_compilation_time |-> TStr("2"),
                       compilation_times |-> TInt(3)])
      [] OTHER -> [NoTable EXCEPT !.state = shape]

NotLoaded == [loaded |-> FALSE, exit |-> 0, md |-> NoMetadata]

MetadataIdle == mdfile = NoTable /\ mdstore = NotLoaded /\ mdbuilds = 0

MetadataInit ==
    /\ \E shape \in FileShapes, tk \in {"main", "test"}, n \in HistoryLengths :
          mdfile = MetadataFile(shape, tk, n)
    /\ mdstore = NotLoaded
    /\ mdbuilds = 0

\* metadata::load_metadata(flags) at the start of an invocation
LoadMetadata ==
    /\ ~mdstore.loaded
    /\ mdstore' = [loaded |-> TRUE] @@ load_metadata(mdfile)
    /\ UNCHANGED <<mdfile, mdbuilds>>

\* a build that compiled: the new Metadata replaces the old one and is
\* written over the file
RecordBuild ==
    /\ mdstore.loaded /\ mdstore.exit = 0
    /\ mdbuilds < MaxBuilds
    /\ \E tk \in {"main", "test"}, sample \in {7, 9} :
          LET md == Metadata_from(tk, mdstore.md.last_compilation_time + 1,
                                  push_compilation_time(mdstore.md.compilation_times, sample))
          IN  /\ mdstore' = [mdstore EXCEPT !.md = md]
              /\ mdfile' = TableFile(to_table(md))
    /\ mdbuilds' = mdbuilds + 1

\* the next invocation starts and loads the file again
Restart ==
    /\ mdstore.loaded /\ mdstore.exit = 0
    /\ mdbuilds > 0
    /\ mdstore' = NotLoaded
    /\ UNCHANGED <<mdfile, mdbuilds>>

(***************************************************************************)
(* Invocations of build and run on one task, one after the other:          *)
(* load_metadata, BuildInformation::from, build_task, and for run          *)
(* run_target.  Between them the user may save a source file.              *)
(***************************************************************************)

MaxClock == 6

SessionTask == [name |-> "main", sources |-> <<SrcRoot>>, output |-> <<OutJar>>]
SessionTree == (SrcRoot :> <<FileA, FileB>>)
SessionFiles == JavaFiles(SessionTree)

\* the compiler accepts the sources and writes their classes, or rejects them
SessionOutcomes ==
    {[spawn |-> "ok", stderr |-> <<>>, status |-> 0, wrote |-> TRUE, duration |-> 5],
     [spawn |-> "ok", stderr |-> <<"e","r","r","o","r",":"," ","x">>, status |-> 1,
      wrote |-> FALSE, duration |-> 5]}

\* builder::clean_binary_folder: [exit, bin]
clean_binary_folder(b, removed) ==
    IF removed THEN [exit |-> 0, bin |-> {}] ELSE [exit |-> 3, bin |-> b]

\* the metadata written after a build that returned
record_build(md, tk, now) ==
    [last_compiled_task |-> tk.name, last_compilation_time |-> now]

\* the files generate_source leaves out of source_files
skipped_files(inf) ==
    SessionFiles \ {source_arguments(inf.source_files)[i] :
                       i \in 1..Len(source_arguments(inf.source_files))}

NoInvocation == [kind |-> "none", skipped |-> {}, had |-> {}, pc |-> "idle"]

SessionIdle ==
    /\ sbin = {} /\ smeta = <<>> /\ smtimes = <<>> /\ sclock = 0 /\ slog = NoInvocation

\* a fresh checkout: nothing compiled, no .wisteria
SessionInit ==
    /\ sbin = {}
    /\ smeta = [last_compiled_task |-> None, last_compilation_time |-> 0]
    /\ smtimes = [f \in SessionFiles |-> 1]
    /\ sclock = 2
    /\ slog = NoInvocation

\* the user saves a source file
SaveSource ==
    /\ sclock < MaxClock
    /\ \E f \in SessionFiles : smtimes' = [smtimes EXCEPT ![f] = sclock]
    /\ sclock' = sclock + 1
    /\ UNCHANGED <<sbin, smeta, slog>>

\* `build main`
BuildInvocation ==
    /\ sclock < MaxClock
    /\ \E out \in SessionOutcomes :
          LET inf == generate_source(SessionTask, SessionTree,
                                     [recompile_all |-> FALSE], smeta, smtimes)
              r == build_task(SessionTask, inf, smeta, sbin, out)
          IN  /\ sbin' = r.bin
              /\ smeta' = IF r.pc = "returned"
                          THEN record_build(smeta, SessionTask, sclock) ELSE smeta
              /\ slog' = [kind |-> "build", skipped |-> skipped_files(inf),
                          had |-> sbin, pc |-> r.pc]
    /\ sclock' = sclock + 1
    /\ UNCHANGED smtimes

\* `run main`: the build, then run_target on the artifact
RunInvocation ==
    /\ sclock < MaxClock
    /\ \E out \in SessionOutcomes, removed \in BOOLEAN :
          LET inf == generate_source(SessionTask, SessionTree,
                                     [recompile_all |-> FALSE], smeta, smtimes)
              r == build_task(SessionTask, inf, smeta, sbin, out)
              cleaned == clean_binary_folder(r.bin, removed)
          IN  /\ sbin' = IF r.pc = "returned" THEN cleaned.bin ELSE r.bin
              /\ smeta' = IF r.pc = "returned"
                          THEN record_build(smeta, SessionTask, sclock) ELSE smeta
              /\ slog' = [kind |-> "run", skipped |-> skipped_files(inf),
                          had |-> sbin,
                          pc |-> IF r.pc = "returned" /\ cleaned.exit = 0
                                 THEN "ran" ELSE "exit3"]
    /\ sclock' = sclock + 1
    /\ UNCHANGED smtimes

(***************************************************************************)
(* Specification of dependency resolution.                                 *)
(***************************************************************************)

InitDep ==
    /\ DepInit /\ BuildIdle /\ InheritIdle /\ ProjectIdle /\ ClasspathIdle /\ ManifestIdle
    /\ PackageIdle
    /\ MetadataIdle
    /\ SessionIdle
    /\ PathsIdle
    /\ VariablesIdle
    /\ VersionsIdle
NextDep == Resolve /\ UNCHANGED <<buildVars, inheritVars, projectVars, classpathVars, manifestVars, packageVars,
                 metadataVars,
                 sessionVars,
                 pathsVars,
                 variablesVars,
                 versionsVars>>
SpecDep == InitDep /\ [][NextDep]_vars

InitBuild ==
    /\ BuildInit /\ DepIdle /\ InheritIdle /\ ProjectIdle /\ ClasspathIdle /\ ManifestIdle
    /\ PackageIdle
    /\ MetadataIdle
    /\ SessionIdle
    /\ PathsIdle
    /\ VariablesIdle
    /\ VersionsIdle
NextBuild ==
    (GenerateSource \/ BuildTask) /\ UNCHANGED <<depVars, inheritVars, projectVars, classpathVars, manifestVars, packageVars,
                 metadataVars,
                 sessionVars,
                 pathsVars,
                 variablesVars,
                 versionsVars>>
SpecBuild == InitBuild /\ [][NextBuild]_vars

(***************************************************************************)
(* Specification of repeated inheritance.                                  *)
(***************************************************************************)

InitInherit ==
    /\ InheritInit /\ DepIdle /\ BuildIdle /\ ProjectIdle /\ ClasspathIdle /\ ManifestIdle
    /\ PackageIdle
    /\ MetadataIdle
    /\ SessionIdle
    /\ PathsIdle
    /\ VariablesIdle
    /\ VersionsIdle
NextInherit == InheritFrom /\ UNCHANGED <<depVars, buildVars, projectVars, classpathVars, manifestVars, packageVars,
                 metadataVars,
                 sessionVars,
                 pathsVars,
                 variablesVars,
                 versionsVars>>
SpecInherit == InitInherit /\ [][NextInherit]_vars

(***************************************************************************)
(* Specification of project loading.                                       *)
(***************************************************************************)

InitProject ==
    /\ ProjectInit /\ DepIdle /\ BuildIdle /\ InheritIdle /\ ClasspathIdle /\ ManifestIdle
    /\ PackageIdle
    /\ MetadataIdle
    /\ SessionIdle
    /\ PathsIdle
    /\ VariablesIdle
    /\ VersionsIdle
NextProject == ProjectFrom /\ UNCHANGED <<depVars, buildVars, inheritVars, classpathVars, manifestVars, packageVars,
                 metadataVars,
                 sessionVars,
                 pathsVars,
                 variablesVars,
                 versionsVars>>
SpecProject == InitProject /\ [][NextProject]_vars

(***************************************************************************)
(* Specification of the resolution of a configuration's dependencies.      *)
(***************************************************************************)

InitClasspath ==
    /\ ClasspathInit /\ BuildIdle /\ InheritIdle /\ ProjectIdle /\ ManifestIdle
    /\ PackageIdle
    /\ MetadataIdle
    /\ SessionIdle
    /\ PathsIdle
    /\ VariablesIdle
    /\ VersionsIdle
NextClasspath ==
    GenerateClasspath /\ UNCHANGED <<buildVars, inheritVars, projectVars, manifestVars,
                                     packageVars,
                 metadataVars,
                 sessionVars,
                 pathsVars,
                 variablesVars,
                 versionsVars>>
SpecClasspath == InitClasspath /\ [][NextClasspath]_vars

(***************************************************************************)
(* Specification of the Class-Path header.                                 *)
(***************************************************************************)

InitManifest ==
    /\ ManifestInit /\ DepIdle /\ BuildIdle /\ InheritIdle /\ ProjectIdle /\ ClasspathIdle
    /\ PackageIdle
    /\ MetadataIdle
    /\ SessionIdle
    /\ PathsIdle
    /\ VariablesIdle
    /\ VersionsIdle
NextManifest ==
    ToHeader /\ UNCHANGED <<depVars, buildVars, inheritVars, projectVars, classpathVars, packageVars,
                 metadataVars,
                 sessionVars,
                 pathsVars,
                 variablesVars,
                 versionsVars>>
SpecManifest == InitManifest /\ [][NextManifest]_vars

(***************************************************************************)
(* Specification of packaging.                                             *)
(***************************************************************************)

InitPackage ==
    /\ PackageInit /\ DepIdle /\ BuildIdle /\ InheritIdle /\ ProjectIdle
    /\ ClasspathIdle /\ ManifestIdle
    /\ MetadataIdle
    /\ SessionIdle
    /\ PathsIdle
    /\ VariablesIdle
    /\ VersionsIdle
NextPackage ==
    Package /\ UNCHANGED <<depVars, buildVars, inheritVars, projectVars, classpathVars,
                           manifestVars,
                 metadataVars,
                 sessionVars,
                 pathsVars,
                 variablesVars,
                 versionsVars>>
SpecPackage == InitPackage /\ [][NextPackage]_vars

(***************************************************************************)
(* Specification of the build metadata store.                              *)
(***************************************************************************)

InitMetadata ==
    /\ MetadataInit /\ DepIdle /\ BuildIdle /\ InheritIdle /\ ProjectIdle
    /\ ClasspathIdle /\ ManifestIdle /\ PackageIdle
    /\ SessionIdle
    /\ PathsIdle
    /\ VariablesIdle
    /\ VersionsIdle
NextMetadata ==
    (LoadMetadata \/ RecordBuild \/ Restart)
        /\ UNCHANGED <<depVars, buildVars, inheritVars, projectVars, classpathVars,
                       manifestVars, packageVars,
                 sessionVars,
                 pathsVars,
                 variablesVars,
                 versionsVars>>
SpecMetadata == InitMetadata /\ [][NextMetadata]_vars

(***************************************************************************)
(* Specification of repeated build and run invocations.                    *)
(***************************************************************************)

InitSession ==
    /\ SessionInit /\ DepIdle /\ BuildIdle /\ InheritIdle /\ ProjectIdle
    /\ ClasspathIdle /\ ManifestIdle /\ PackageIdle /\ MetadataIdle
    /\ PathsIdle
    /\ VariablesIdle
    /\ VersionsIdle
NextSession ==
    (SaveSource \/ BuildInvocation \/ RunInvocation)
        /\ UNCHANGED <<depVars, buildVars, inheritVars, projectVars, classpathVars,
                       manifestVars, packageVars, metadataVars,
                 pathsVars,
                 variablesVars,
                 versionsVars>>
SpecSession == InitSession /\ [][NextSession]_vars

(***************************************************************************)
(* Specification of the cache paths of two dependencies.                   *)
(***************************************************************************)

InitPaths ==
    /\ PathsInit /\ DepIdle /\ BuildIdle /\ InheritIdle /\ ProjectIdle
    /\ ClasspathIdle /\ ManifestIdle /\ PackageIdle /\ MetadataIdle /\ SessionIdle
    /\ VariablesIdle
    /\ VersionsIdle
NextPaths ==
    ResolvePair
        /\ UNCHANGED <<depVars, buildVars, inheritVars, projectVars, classpathVars,
                       manifestVars, packageVars, metadataVars, sessionVars,
                 variablesVars,
                 versionsVars>>
SpecPaths == InitPaths /\ [][NextPaths]_vars

(***************************************************************************)
(* Specification of resolve_filepath; the loop keeps running as long as it *)
(* can.                                                                    *)
(***************************************************************************)

InitVariables ==
    /\ VariablesInit /\ DepIdle /\ BuildIdle /\ InheritIdle /\ ProjectIdle
    /\ ClasspathIdle /\ ManifestIdle /\ PackageIdle /\ MetadataIdle /\ SessionIdle
    /\ PathsIdle
    /\ VersionsIdle
NextVariables ==
    (Substitute \/ ReturnPath)
        /\ UNCHANGED <<depVars, buildVars, inheritVars, projectVars, classpathVars,
                       manifestVars, packageVars, metadataVars, sessionVars, pathsVars,
                 versionsVars>>
SpecVariables == InitVariables /\ [][NextVariables]_vars
FairVariables == SpecVariables /\ WF_vars(NextVariables)

(***************************************************************************)
(* Specification of version numbers.                                       *)
(***************************************************************************)

InitVersions ==
    /\ VersionsInit /\ DepIdle /\ BuildIdle /\ InheritIdle /\ ProjectIdle
    /\ ClasspathIdle /\ ManifestIdle /\ PackageIdle /\ MetadataIdle /\ SessionIdle
    /\ PathsIdle /\ VariablesIdle
NextVersions ==
    (ConfigurationFrom \/ CompilerFlagsFrom)
        /\ UNCHANGED <<depVars, buildVars, inheritVars, projectVars, classpathVars,
                       manifestVars, packageVars, metadataVars, sessionVars, pathsVars,
                       variablesVars>>
SpecVersions == InitVersions /\ [][NextVersions]_vars

(***************************************************************************)
(* Claims about dependency resolution.                                     *)
(***************************************************************************)

\* the update-policy table as the documentation gives it, one row per policy,
\* columns Update, SwitchConfiguration, TaskInvoked, ResolveOnly
PolicyTable ==
    [Always |-> <<TRUE, TRUE, TRUE, TRUE>>,
     Never |-> <<FALSE, FALSE, FALSE, FALSE>>,
     SwitchOrUpdate |-> <<TRUE, TRUE, FALSE, FALSE>>,
     UpdateOnly |-> <<TRUE, FALSE, FALSE, FALSE>>,
     SwitchOrTask |-> <<FALSE, TRUE, TRUE, FALSE>>,
     SwitchConfigurationOnly |-> <<FALSE, TRUE, FALSE, FALSE>>,
     TaskOrUpdate |-> <<TRUE, FALSE, TRUE, FALSE>>,
     TaskInvokedOnly |-> <<FALSE, FALSE, TRUE, FALSE>>]

ContextColumn ==
    [Update |-> 1, SwitchConfiguration |-> 2, TaskInvoked |-> 3, ResolveOnly |-> 4]

TableSays(policy, context) == PolicyTable[policy][ContextColumn[context]]

\* C1: for every policy and every context a resolve call consults, the answer of
\* should_update is the entry of the documented table.
C1_ShouldUpdateMatchesTable ==
    last.called => last.decision = TableSays(last.policy, last.ctx)

\* C1 witness: TaskOrUpdate consulted under TaskInvoked answered true
C1_Witness ==
    /\ last.called
    /\ last.policy = "TaskOrUpdate"
    /\ last.ctx = "TaskInvoked"
    /\ last.decision

\* C7: a FetchFromMaven dependency with policy Never is never fetched and every
\* resolution returns the one cache path, whether or not the file exists; and any
\* fetch dependency whose policy says no for the context returns its cache path
\* without a fetch.
C7_NeverNoFetch ==
    /\ \A n \in DOMAIN deps :
          (deps[n].kind = "FetchFromMaven" /\ deps[n].update_policy = "Never")
              => /\ fetches[n] = 0
                 /\ Cardinality(returned[n]) <= 1
                 /\ Cardinality(returned[n]) = 1 <=> resolves[n] > 0
    /\ (last.called /\ ~TableSays(last.policy, last.ctx))
          => /\ ~last.fetched
             /\ last.res.ok
             /\ last.res.val = <<filepath_of(deps[last.name], last.name)>>

\* C7 witness: a Never Maven dependency resolved three times, cache file absent
C7_Witness ==
    /\ last.called
    /\ last.kind = "FetchFromMaven"
    /\ last.policy = "Never"
    /\ resolves[last.name] >= 3
    /\ ~last.existed
    /\ last.res.ok

C9_UpdateRefetches ==
    (last.called /\ last.ctx = "Update" /\ TableSays(last.policy, "Update") /\ last.res.ok)
        => (last.fetched /\ last.wrote)

\* a Maven dependency as C10 takes it: no classifier, the default base URL
PlainMaven(dep) ==
    /\ dep.kind = "FetchFromMaven"
    /\ ~IsSome(dep.classifier)
    /\ dep.url = MavenCentral

\* C10 as claimed: the cache path is <root>/<group, dots as separators>/A/V/A-V.jar
C10_PathAsClaimed ==
    (last.called /\ last.res.ok /\ PlainMaven(deps[last.name])) =>
        LET d == deps[last.name]
        IN  last.res.val[1] =
                CacheRoot \o Replace(d.group_id, ".", <<"/">>) \o <<"/">> \o d.artifact_id
                    \o <<"/">> \o d.version \o <<"/">> \o d.artifact_id \o <<"-">>
                    \o d.version \o JarExt

\* C10 amended: the cache path is .wisteria/cache/<group as written, dots kept>/
\* A/V/A.jar: six components, the group one of them, the file named after the
\* artifact alone.
C10_PathComponents ==
    (last.called /\ last.res.ok /\ PlainMaven(deps[last.name])) =>
        LET d == deps[last.name]
        IN  Split(last.res.val[1], "/") =
                << <<".","w","i","s","t","e","r","i","a">>, <<"c","a","c","h","e">>,
                   d.group_id, d.artifact_id, d.version, d.artifact_id \o JarExt >>

\* C10 witness: com.example / lib / 1.0 resolved
C10_Witness ==
    /\ last.called
    /\ last.res.ok
    /\ PlainMaven(deps[last.name])
    /\ deps[last.name].group_id = ComExample
    /\ deps[last.name].artifact_id = Lib
    /\ deps[last.name].version = OneZero
    /\ last.res.val[1] =
          <<".","w","i","s","t","e","r","i","a","/","c","a","c","h","e","/",
            "c","o","m",".","e","x","a","m","p","l","e","/","l","i","b","/",
            "1",".","0","/","l","i","b",".","j","a","r">>

(***************************************************************************)
(* Claims about the incremental build.                                     *)
(***************************************************************************)

\* the files the compiler is asked to compile
CompileSet ==
    {source_arguments(info.source_files)[i] :
        i \in 1..Len(source_arguments(info.source_files))}

\* the java files below the roots the task declares
Collected ==
    UNION {{collect_files(tree, task.sources[k])[i] :
               i \in 1..Len(collect_files(tree, task.sources[k]))} :
           k \in 1..Len(task.sources)}

\* C2: a collected file is left out of the compile set exactly if --recompile-all
\* is off, the stored task is the task being built, and the file's modification
\* time is strictly earlier than the stored compilation time.
C2_SkipIffUnmodified ==
    pc # "start" =>
        \A f \in Collected :
            f \notin CompileSet <=>
                /\ ~flags.recompile_all
                /\ metadata.last_compiled_task = task.name
                /\ mtimes[f] # NoMtime
                /\ mtimes[f] < metadata.last_compilation_time

\* C2 witness: stored task main at time 2, A modified at 1 and B at 3; building
\* main selects exactly B
C2_Witness ==
    /\ pc = "collected"
    /\ task.name = "main" /\ task.sources = <<SrcRoot>>
    /\ ~flags.recompile_all
    /\ metadata = [last_compiled_task |-> "main", last_compilation_time |-> 2]
    /\ Collected = {canonicalize_path(FileA), canonicalize_path(FileB)}
    /\ mtimes[canonicalize_path(FileA)] = 1
    /\ mtimes[canonicalize_path(FileB)] = 3
    /\ CompileSet = {canonicalize_path(FileB)}

\* C5: when the compiler ran, the build goes on exactly if its stderr is empty
\* or begins with "Note: ", whatever the exit status.
C5_StderrDecides ==
    (build.ran /\ build.spawn = "ok") =>
        (pc = "returned" <=>
            \/ build.stderr = <<>>
            \/ /\ Len(build.stderr) >= 6
               /\ SubSeq(build.stderr, 1, 6) = <<"N","o","t","e",":"," ">>)

\* C5 witness: exit status zero, stderr not a note, the build failed
C5_Witness ==
    /\ build.ran /\ build.spawn = "ok"
    /\ build.status = 0
    /\ build.stderr = <<"e","r","r","o","r",":"," ","x">>
    /\ pc = "exit3"

Selected ==
    {f \in Collected : ~is_unmodified(flags, metadata, task, mtimes[f])}

\* C17: when no file is selected for compilation, build_task does not run the
\* compiler and returns the task's targets and the duration 0; it never fails
C17_EmptySelectionReturns ==
    (pc \in {"returned", "exit3"} /\ Selected = {}) =>
        /\ pc = "returned"
        /\ ~build.ran
        /\ build.targets = task.output
        /\ build.duration = 0

\* two source roots with files, every one of them unmodified since the last
\* build of the same task
C17_Witness ==
    /\ pc = "returned"
    /\ Len(task.sources) = 2
    /\ Cardinality(Collected) = 3
    /\ Selected = {}
    /\ ~build.ran
    /\ bin # {}

Occurrences(l, x) == Cardinality({i \in 1..Len(l) : l[i] = x})

\* the list under an optional list, the empty list when there is none
ListOf(o) == IF IsSome(o) THEN o[1] ELSE <<>>

ListFields == {"sources", "dependencies", "includes", "targets", "compiler_flags"}

\* no element occurs more often in the field now than it did before, unless it
\* did not occur and now occurs once
NoDuplicateGained(before, after, field) ==
    \A i \in 1..Len(ListOf(after[field])) :
        LET x == ListOf(after[field])[i]
        IN  \/ Occurrences(ListOf(after[field]), x) = 1
            \/ Occurrences(ListOf(after[field]), x) = Occurrences(ListOf(before[field]), x)

\* C3: applying inherit_from to the already-inherited child again, with the
\* same parent, leaves the child as the first application made it, and no
\* list field gains a duplicate
C3_InheritIdempotent ==
    applied >= 2 =>
        /\ child = firstResult
        /\ \A field \in ListFields : NoDuplicateGained(firstResult, child, field)

\* inheritance was applied twice to a child whose sources overlap the
\* parent's and that took a source from the parent
C3_Witness ==
    /\ applied = 2
    /\ IsSome(original.sources) /\ IsSome(parent.sources)
    /\ \E i \in 1..Len(original.sources[1]) : \E j \in 1..Len(parent.sources[1]) :
          original.sources[1][i] = parent.sources[1][j]
    /\ Len(child.sources[1]) > Len(original.sources[1])
    /\ child.java_version # original.java_version

\* whether x is an element of the list l
Contains(l, x) == \E i \in 1..Len(l) : l[i] = x

\* the child's elements in their order, then the parent's elements the child
\* does not have, in the parent's order; absent when both are absent
MergedList(own, inherited) ==
    IF ~IsSome(own) /\ ~IsSome(inherited) THEN NoneOpt
    ELSE Some(ListOf(own)
              \o SelectSeq(ListOf(inherited), LAMBDA x : ~Contains(ListOf(own), x)))

AllListFields ==
    {"sources", "dependencies", "shaded", "includes", "targets", "compiler_flags"}

\* C12: after child.inherit_from(parent) every list field is the child's own
\* elements followed by the parent's elements the child did not have, and
\* holds no element twice
C12_ListsMerged ==
    applied = 1 =>
        \A field \in AllListFields :
            /\ child[field] = MergedList(original[field], parent[field])
            /\ \A i \in 1..Len(ListOf(child[field])) :
                  Occurrences(ListOf(child[field]), ListOf(child[field])[i]) = 1

\* C13: after child.inherit_from(parent) the child's java_version is the
\* parent's, whatever the two were
C13_VersionOverwritten ==
    applied >= 1 => child.java_version = parent.java_version

\* the child declared 17, the parent declared nothing and has the default 8
C13_Witness ==
    /\ applied = 1
    /\ original.java_version = 17
    /\ parent.java_version = 8
    /\ child.java_version = 8

\* the keys configuration.rs seeds every environment with
SeededKeys == {"project_name", "configuration", "version"}

\* C14: inherit_from keeps every task and every environment value the child
\* had, adds the parent's task (the same object) or value under every key only
\* the parent had, and adds nothing else
C14_ChildEntriesKept ==
    applied = 1 =>
        /\ DOMAIN child.tasks = DOMAIN original.tasks \cup DOMAIN parent.tasks
        /\ \A k \in DOMAIN original.tasks : child.tasks[k] = original.tasks[k]
        /\ \A k \in DOMAIN parent.tasks \ DOMAIN original.tasks :
              child.tasks[k] = parent.tasks[k]
        /\ DOMAIN child.environment
               = DOMAIN original.environment \cup DOMAIN parent.environment
        /\ \A k \in DOMAIN original.environment :
              child.environment[k] = original.environment[k]
        /\ \A k \in DOMAIN parent.environment \ DOMAIN original.environment :
              child.environment[k] = parent.environment[k]
        /\ \A k \in SeededKeys : child.environment[k] = original.environment[k]

\* child and parent each hold a task of their own under a shared name, the
\* parent has a task and a variable the child lacks, and they disagree on a
\* variable and on the seeded configuration name
C14_Witness ==
    /\ applied = 1
    /\ \E k \in DOMAIN original.tasks \cap DOMAIN parent.tasks :
          original.tasks[k] # parent.tasks[k] /\ child.tasks[k].owner = "dev"
    /\ \E k \in DOMAIN parent.tasks \ DOMAIN original.tasks :
          child.tasks[k].owner = "base"
    /\ \E k \in (DOMAIN original.environment \cap DOMAIN parent.environment) \ SeededKeys :
          original.environment[k] # parent.environment[k]
    /\ DOMAIN parent.environment \ DOMAIN original.environment # {}
    /\ child.environment["configuration"] = "dev"
    /\ parent.environment["configuration"] = "base"

(***************************************************************************)
(* Claims about project loading.                                           *)
(***************************************************************************)

\* the <<key, value>> pairs of the document's configuration table
ConfigEntries ==
    IF IsSome(ptoml.configuration_map) /\ ptoml.configuration_map[1].ty = "table"
    THEN ptoml.configuration_map[1].v ELSE <<>>

\* the inherit target the table under entry i declares, if it declares one
DeclaredInherit(i) ==
    IF ConfigEntries[i][2].ty = "table"
    THEN OkOpt(read_string("inherit", ConfigEntries[i][2].v))
    ELSE NoneOpt

SelfInheriting ==
    {i \in 1..Len(ConfigEntries) : DeclaredInherit(i) = Some(ConfigEntries[i][1])}

MissingTarget ==
    {i \in 1..Len(ConfigEntries) :
        /\ IsSome(DeclaredInherit(i))
        /\ \A j \in 1..Len(ConfigEntries) : ConfigEntries[j][1] # DeclaredInherit(i)[1]}

\* the project's name, version and description are read and every
\* configuration is a table that Configuration::from accepts
ConfigurationsLoad ==
    /\ read_string("name", ptoml.toml).ok
    /\ read_string("version", ptoml.toml).ok
    /\ read_string("description", ptoml.toml).ok
    /\ load_configurations(ConfigEntries, "proj", "1.0", <<>>).ok

\* C4 as stated: whenever some configuration inherits from itself or from a
\* configuration that does not exist, Project::from returns error 40 or 41
C4_AlwaysInheritanceError ==
    (presult.called /\ SelfInheriting \cup MissingTarget # {})
        => ~presult.res.ok /\ presult.res.code \in {40, 41}

\* C4: whenever some configuration inherits from itself or from a
\* configuration that does not exist, Project::from produces no project, in
\* any visiting order; when the project fields and every configuration load,
\* the error is 40 or 41, 40 only with a self-inheriting configuration and 41
\* only with a missing target; otherwise it is the earlier loading error
C4_InheritanceError ==
    (presult.called /\ SelfInheriting \cup MissingTarget # {})
        => /\ ~presult.res.ok
           /\ ConfigurationsLoad =>
                 /\ presult.res.code \in {40, 41}
                 /\ presult.res.code = 40 => SelfInheriting # {}
                 /\ presult.res.code = 41 => MissingTarget # {}
           /\ ~ConfigurationsLoad => presult.res.code \in {10, 16}

\* configuration c inherits from itself under a name that is not the first,
\* and the loop visited a well-formed inheritor before it
C4_Witness ==
    /\ presult.called
    /\ ConfigurationsLoad
    /\ SelfInheriting = {3}
    /\ MissingTarget = {}
    /\ presult.order[1] = "b"
    /\ DeclaredInherit(2) = Some("a")
    /\ presult.res.code = 40

\* the configuration the first loop of Project::from makes of entry i
Loaded(i) ==
    apply_implicit(
        Configuration_from(ConfigEntries[i][1], ConfigEntries[i][2].v, "proj", "1.0").val,
        "loaded")

\* a inherits b and b inherits c
Chain ==
    /\ Len(ConfigEntries) = 3
    /\ DeclaredInherit(1) = Some("b")
    /\ DeclaredInherit(2) = Some("c")

\* the elements of an optional list
ElementsOf(o) == {ListOf(o)[i] : i \in 1..Len(ListOf(o))}

\* C15: when a inherits b and b inherits c, the loaded a is a's own
\* declaration merged with b's declaration as it was before b inherited, in
\* every visiting order; nothing in it comes from c alone
C15_SinglePass ==
    (presult.called /\ presult.res.ok /\ Chain) =>
        LET got == presult.res.val.configurations["a"]
        IN  /\ got = apply_implicit(inherit_from(Loaded(1), Loaded(2)), "inherited")
            /\ \A field \in AllListFields :
                  ElementsOf(got[field])
                      \subseteq ElementsOf(Loaded(1)[field]) \cup ElementsOf(Loaded(2)[field])
            /\ got.entry \in {Loaded(1).entry, Loaded(2).entry}
            /\ got.java_version = Loaded(2).java_version
            /\ DOMAIN got.environment
                   \subseteq DOMAIN Loaded(1).environment \cup DOMAIN Loaded(2).environment
            /\ DOMAIN got.tasks \ {"build", "clean"}
                   \subseteq DOMAIN Loaded(1).tasks \cup DOMAIN Loaded(2).tasks

\* b was visited before a and received c's sources, entry and variables; a
\* has none of them
C15_Witness ==
    /\ presult.called /\ presult.res.ok /\ Chain
    /\ presult.order = <<"b", "a", "c">>
    /\ IsSome(presult.res.val.configurations["b"].sources)
    /\ ~IsSome(Loaded(2).sources)
    /\ ~IsSome(presult.res.val.configurations["a"].sources)
    /\ "k" \in DOMAIN presult.res.val.configurations["b"].environment
    /\ "k" \notin DOMAIN presult.res.val.configurations["a"].environment
    /\ presult.res.val.configurations["b"].java_version = 17
    /\ presult.res.val.configurations["a"].java_version = 8

\* the keys Configuration::from reads as lists of strings
ListKeys == {"sources", "dependencies", "shaded", "includes", "targets"}

\* the table has one of the optional keys of a configuration with a value of
\* the wrong type
WrongType(t) ==
    \/ \E k \in ListKeys \cap DOMAIN t : ~read_string_array(k, t).ok
    \/ \E k \in {"entry", "inherit"} \cap DOMAIN t : t[k].ty # "string"
    \/ "java_version" \in DOMAIN t /\ t["java_version"].ty # "integer"
    \/ \E k \in {"task", "environment", "compiler_flags"} \cap DOMAIN t : t[k].ty # "table"

\* C16: a configuration table with an optional field of the wrong type makes
\* Configuration::from, and with it the loading of the project, return an error
C16_WrongTypeRejected ==
    (/\ presult.called
     /\ \E i \in 1..Len(ConfigEntries) :
           ConfigEntries[i][2].ty = "table" /\ WrongType(ConfigEntries[i][2].v))
        => ~presult.res.ok

(***************************************************************************)
(* Claims about the resolution of a configuration's dependencies.          *)
(***************************************************************************)

\* the names of the list the project declares, in order
DeclaredNames == SelectSeq(cpnames, LAMBDA n : n \in DOMAIN deps)

\* C11: the batch attempts every declared dependency of the list in order,
\* also after one of them failed: it never returns at the first failure
C11_AllAttempted ==
    cpresult.called => cpresult.attempted = DeclaredNames

(***************************************************************************)
(* Claims about the manifest.                                              *)
(***************************************************************************)

\* the physical lines of the header: the text between the newlines, without
\* the empty piece after the last newline
HeaderLines ==
    LET pieces == Split(mheader.res.val, Newline)
    IN  SubSeq(pieces, 1, Len(pieces) - 1)

RECURSIVE Unfolded(_)
\* the lines put together again, the first character of every line dropped
Unfolded(lines) ==
    IF lines = <<>> THEN <<>> ELSE Tail(Head(lines)) \o Unfolded(Tail(lines))

\* C19: no line of the Class-Path header is longer than 71, every line after
\* the first begins with a space, and without that one space per line the
\* lines are the attribute again
C19_HeaderFolded ==
    (mheader.called /\ mheader.res.ok) =>
        /\ mheader.res.val[Len(mheader.res.val)] = Newline
        /\ \A i \in 1..Len(HeaderLines) : Len(HeaderLines[i]) <= 71
        /\ \A i \in 2..Len(HeaderLines) : HeaderLines[i][1] = " "
        /\ Head(HeaderLines) \o Unfolded(Tail(HeaderLines)) = attribute_raw_of(mpath)

\* a header of three lines, the first two of them full
C19_Witness ==
    /\ mheader.called /\ mheader.res.ok
    /\ Len(mpath) = 3
    /\ Len(HeaderLines) = 3
    /\ Len(HeaderLines[1]) = 71
    /\ Len(HeaderLines[2]) = 71


(***************************************************************************)
(* Claims about packaging.                                                 *)
(***************************************************************************)

\* the archives the task declares as shaded
DeclaredShaded == {pktask.shaded[1][i] : i \in 1..Len(pktask.shaded[1])}

\* C20: when the task declares shaded archives and package returns a
\* digest, the digest is that of a written target which holds the content
\* of every declared shaded archive: the merge comes after the archiver and
\* before the digest is taken.
C20_ShadedHashed ==
    (/\ pkout.called /\ pkout.exit = 0
     /\ IsSome(pktask.shaded)
     /\ IsSome(pkout.hash) /\ pkout.hash[1] # <<>>)
    => \E i \in 1..Len(pktargets) :
          LET file == pkout.fs[pktargets[i]]
          IN  /\ pkout.hash[1] = sha256sum(file)
              /\ file = Shaded(Artifact(file.args), DeclaredShaded)

\* C21: when package returns without aborting, every declared target holds
\* the artifact this call produced; no target is passed over.
C21_EveryTargetProduced ==
    (pkout.called /\ pkout.exit = 0)
    => \A i \in 1..Len(pktargets) :
          /\ pkout.fs[pktargets[i]].present
          /\ ~pkout.fs[pktargets[i]].stale

(***************************************************************************)
(* Claims about the codes of resolution errors.                            *)
(***************************************************************************)

\* C22: every error Dependency::resolve returns carries a code of the
\* filesystem/resolution/runtime class, 60 or above.
C22_ResolveErrorCodes ==
    (last.called /\ ~last.res.ok) => last.res.code >= 60

(***************************************************************************)
(* Claims about the implicit tasks of a loaded project.                    *)
(***************************************************************************)

\* the configurations of the project Project::from returned
Configurations == presult.res.val.configurations

\* C23: in the project Project::from returns, every configuration whose
\* merged targets are present holds its own implicit clean task under
\* "clean", and its own implicit build task under "build" when its merged
\* sources are present too; on a configuration without targets
\* apply_implicit changes no task.
C23_ImplicitReflectMerged ==
    (presult.called /\ presult.res.ok) =>
        \A n \in DOMAIN Configurations :
            LET c == Configurations[n]
            IN  /\ IsSome(c.targets) =>
                      /\ "clean" \in DOMAIN c.tasks
                      /\ c.tasks["clean"].kind = "implicit_clean"
                      /\ c.tasks["clean"].owner = n
                      /\ IsSome(c.sources) =>
                            /\ "build" \in DOMAIN c.tasks
                            /\ c.tasks["build"].kind = "implicit_build"
                            /\ c.tasks["build"].owner = n
                /\ ~IsSome(c.targets) => apply_implicit(c, "inherited").tasks = c.tasks

\* a declares neither targets nor sources and inherits both from b, which
\* defines a task "build" itself; c has no targets
C23_Witness ==
    /\ presult.called /\ presult.res.ok
    /\ Len(ConfigEntries) = 3
    /\ DeclaredInherit(1) = Some("b")
    /\ ~IsSome(Loaded(1).targets) /\ ~IsSome(Loaded(1).sources)
    /\ "build" \in DOMAIN Configuration_from("b", ConfigEntries[2][2].v, "proj", "1.0").val.tasks
    /\ IsSome(Configurations["a"].targets) /\ IsSome(Configurations["a"].sources)
    /\ Configurations["a"].tasks["build"] = TaskObject("implicit_build", "a", "inherited")
    /\ ~IsSome(Configurations["c"].targets)

(***************************************************************************)
(* Claims about the tasks a configuration defines itself.                  *)
(***************************************************************************)

\* the tasks the table under entry i defines itself
OwnTasks(i) ==
    Configuration_from(ConfigEntries[i][1], ConfigEntries[i][2].v, "proj", "1.0").val.tasks

\* C29 as stated: every task a configuration defines itself is still the task
\* registered under its name in the project Project::from returns
C29_OwnTasksKept ==
    (presult.called /\ presult.res.ok) =>
        \A i \in 1..Len(ConfigEntries) : \A k \in DOMAIN OwnTasks(i) :
            Configurations[ConfigEntries[i][1]].tasks[k] = OwnTasks(i)[k]

\* whether the loaded configuration c registers an implicit task under k
RegistersImplicit(c, k) ==
    /\ IsSome(c.targets)
    /\ k = "clean" \/ (k = "build" /\ IsSome(c.sources))

\* C29: a task a configuration defines itself is still the task registered
\* under its name after Project::from, except that a task named "clean" of a
\* configuration with (own or inherited) targets, and a task named "build" of
\* one with targets and sources, is replaced by the implicit task.
C29_OwnTasksKeptUnlessImplicit ==
    (presult.called /\ presult.res.ok) =>
        \A i \in 1..Len(ConfigEntries) : \A k \in DOMAIN OwnTasks(i) :
            LET c == Configurations[ConfigEntries[i][1]]
            IN  IF RegistersImplicit(c, k)
                THEN c.tasks[k].kind \in {"implicit_clean", "implicit_build"}
                ELSE c.tasks[k] = OwnTasks(i)[k]

\* a defines "clean" and "t", has no targets of its own and inherits them from
\* c: its "clean" is replaced and its "t" kept; b defines "clean" and has no
\* targets: its "clean" is kept; c defines "build" and has targets and
\* sources: its "build" is replaced
C29_Witness ==
    /\ presult.called /\ presult.res.ok
    /\ Len(ConfigEntries) = 3
    /\ DeclaredInherit(1) = Some("c") /\ DeclaredInherit(2) = NoneOpt
    /\ DOMAIN OwnTasks(1) = {"clean", "t"} /\ ~IsSome(Loaded(1).targets)
    /\ DOMAIN OwnTasks(2) = {"clean", "t"}
    /\ Configurations["a"].tasks["clean"] = TaskObject("implicit_clean", "a", "inherited")
    /\ Configurations["a"].tasks["t"] = TaskObject("defined", "a", "t")
    /\ Configurations["b"].tasks["clean"] = TaskObject("defined", "b", "clean")
    /\ DOMAIN OwnTasks(3) = {"build"}
    /\ Configurations["c"].tasks["build"].kind = "implicit_build"

(***************************************************************************)
(* Claims about the build metadata store.                                  *)
(***************************************************************************)

\* C24: the history of compile durations the process holds never has more
\* than 30 entries, whatever the persisted file held and however many
\* builds were recorded.
C24_HistoryBounded ==
    mdstore.loaded => Len(mdstore.md.compilation_times) <= HistoryLimit

(***************************************************************************)
(* Claims about repeated invocations.                                      *)
(***************************************************************************)

\* C25: every source file an invocation skips as unmodified has its class
\* output in bin/ at that moment.
C25_SkippedHaveOutput ==
    slog.kind \in {"build", "run"} => slog.skipped \subseteq slog.had

(***************************************************************************)
(* Claims about the cache paths of two dependencies.                       *)
(***************************************************************************)

FirstDep == load(PairTable(cpair.first)).val
SecondDep == load(PairTable(cpair.second)).val

\* the fields of a dependency, and its name, that its cache path is built from
PathCoordinates(dep, name) ==
    CASE dep.kind = "FetchFromUrl" -> <<name>>
      [] dep.kind = "FetchFromMaven" ->
            <<dep.group_id, dep.artifact_id, dep.version, classifier_string(dep)>>
      [] dep.kind = "FetchFromGithub" -> <<dep.username, dep.repository, dep.tag>>

\* no coordinate holds a path separator
NoSeparator(coordinates) ==
    \A i \in 1..Len(coordinates) :
        \A j \in 1..Len(coordinates[i]) : coordinates[i][j] # "/"

\* C26 as stated: two declared dependencies that differ in their fetch
\* coordinates never resolve to the same cache path, and the second never
\* finds the file the first one cached
C26_NeverSamePath ==
    (cres.called /\ cres.first.ok /\ cres.second.ok) =>
        /\ cres.first.val # cres.second.val
        /\ ~cres.reused

\* C26: two declared dependencies of the same variant whose path
\* coordinates (the name for a URL dependency; group, artifact, version and
\* classifier for Maven; owner, repository and tag for GitHub) differ and hold
\* no path separator never resolve to the same cache path, and the second
\* never finds the file the first one cached
C26_PathCoordinatesDecide ==
    (/\ cres.called /\ cres.first.ok /\ cres.second.ok
     /\ FirstDep.kind = SecondDep.kind
     /\ PathCoordinates(FirstDep, cpair.names[1]) # PathCoordinates(SecondDep, cpair.names[2])
     /\ NoSeparator(PathCoordinates(FirstDep, cpair.names[1]))
     /\ NoSeparator(PathCoordinates(SecondDep, cpair.names[2])))
    => /\ cres.first.val # cres.second.val
       /\ ~cres.reused

\* two Maven dependencies that differ in the version only, both resolved
C26_Witness ==
    /\ cres.called /\ cres.first.ok /\ cres.second.ok
    /\ cpair.first = "maven" /\ cpair.second = "maven-next"
    /\ cres.first.val # cres.second.val

(***************************************************************************)
(* Claims about resolve_filepath.                                          *)
(***************************************************************************)

\* C27: resolve_filepath ends, with a path that holds no variable reference
\* or with error 61.
C27_Terminates ==
    <>(\/ rpc = "err61"
       \/ rpc = "done" /\ captures(rpath) = 0)

(***************************************************************************)
(* Claims about the source-file string of generate_source.                 *)
(***************************************************************************)

RECURSIVE SelectedFrom(_)
\* the files generate_source does not skip, in the order it collects them,
\* from root number k on
SelectedFrom(k) ==
    IF k > Len(task.sources) THEN <<>>
    ELSE SelectSeq(collect_files(tree, task.sources[k]),
                   LAMBDA f : ~is_unmodified(flags, metadata, task, mtimes[f]))
             \o SelectedFrom(k + 1)

\* C28: the source-file string is empty exactly when no file is selected, and
\* otherwise its split on the platform separator is the sequence of the selected
\* files in collection order (no empty entry, no truncated path).
C28_SplitIsSelected ==
    pc # "start" =>
        /\ info.source_files = <<>> <=> SelectedFrom(1) = <<>>
        /\ info.source_files # <<>> =>
               source_arguments(info.source_files) = SelectedFrom(1)

(***************************************************************************)
(* Claims about version numbers.                                           *)
(***************************************************************************)

\* C30: Configuration::from stores a java_version declared as the integer n
\* as the one value of 0..255 that differs from n by a multiple of 256, with
\* no error, and stores 8 when java_version is absent; CompilerFlags::from
\* accepts release_target n exactly for 0 <= n <= 255, keeping n, and returns
\* error 52 for every other integer.
C30_VersionWidths ==
    /\ (vconfig.called /\ vkind = "integer") =>
          /\ vconfig.res.ok
          /\ vconfig.res.val \in 0..255
          /\ (vn - vconfig.res.val) % 256 = 0
    /\ (vconfig.called /\ vkind = "absent") =>
          vconfig.res.ok /\ vconfig.res.val = 8
    /\ (vflag.called /\ vkind = "integer") =>
          IF 0 <= vn /\ vn <= 255
          THEN vflag.res.ok /\ vflag.res.val = vn
          ELSE ~vflag.res.ok /\ vflag.res.code = 52

\* the version 264 is stored as 8 by Configuration::from and refused with
\* error 52 by CompilerFlags::from
C30_Witness ==
    /\ vkind = "integer" /\ vn = 264
    /\ vconfig.called /\ vconfig.res = Ok(8)
    /\ vflag.called /\ vflag.res = Err(52)

====
